---- MODULE Spec2Model ----
(***************************************************************************)
(* State-machine model of the libmongocrypt context layer: the automatic   *)
(* and explicit encrypt contexts (src/src/mongocrypt-ctx-encrypt.c), the    *)
(* automatic and explicit decrypt contexts (src/src/mongocrypt-ctx-         *)
(* decrypt.c) and the context structures (src/src/mongocrypt-ctx-           *)
(* private.h).  The collinfo cache, the key cache, the key broker and the   *)
(* public dispatch functions live in other files of the library and are     *)
(* modelled from the specification.                                         *)
(***************************************************************************)
EXTENDS Integers, Sequences, FiniteSets, TLC

(* ---------------------------------------------------------------- bounds *)
NumCtx == 3          \* contexts created on one mongocrypt_t; ctx->id is 1..NumCtx
NumNs == 2           \* distinct well-formed namespaces "<db>.<coll>"
NumSchemas == 1      \* distinct non-empty $jsonSchema documents
NumKeys == 1         \* distinct data keys (key_uuid values)
MaxFeeds == 1        \* listCollections replies one context is fed
NumVals == 1         \* distinct plaintext values
MaxFields == 1       \* values in one document
NumFull == 2         \* contexts created when every kind of context takes part
NumDocKeys == 2      \* keys the documents of SpecDecryptFinalize name
MaxDocLen == 2       \* values of such a document
MaxBlobLen == 21     \* bytes of a subtype-6 binary handed to the parser
MaxSubtype == 3      \* first byte of such a binary

Ctx == 1..NumCtx
Ns == 1..NumNs
Schemas == 1..NumSchemas
Keys == 1..NumKeys
Vals == 1..NumVals

(* ------------------------------------------------------------ the states *)
\* mongocrypt_ctx_state_t in the order the specification lists them
StateOrder ==
  << "NEED_MONGO_COLLINFO", "NEED_MONGO_MARKINGS", "NEED_MONGO_KEYS",
     "NEED_KMS", "WAITING", "READY", "DONE" >>

Ordered == { StateOrder[i] : i \in DOMAIN StateOrder }

Rank(s) == CHOOSE i \in DOMAIN StateOrder : StateOrder[i] = s

VARIABLES
  ctx,             \* ctx[c]: the mongocrypt_ctx_t with id c and its derived part
  cache_collinfo,  \* crypt->cache_collinfo: namespace -> cache pair
  cache_key,       \* crypt->cache_key: key id -> cache pair
  cache_noblock    \* the engine-wide option copied to ctx->cache_noblock

vars == << ctx, cache_collinfo, cache_key, cache_noblock >>

(* ----------------------------------------------------------- the caches  *)
\* A cache pair; "absent" stands for no pair with this attribute.  The value of
\* a pair that is not done is the empty value of its cache.
NoPair(empty) == [state |-> "absent", owner |-> 0, value |-> empty]

\* no collinfo document
NoCollinfo == [shape |-> "none", view |-> FALSE, schema |-> 0]

\* _mongocrypt_cache_get_or_create: returns the pair's state, owner and value,
\* creating a pending pair owned by owner_id when there is none.
CacheGetOrCreate(cache, attr, owner_id) ==
  IF cache[attr].state = "absent"
    THEN [cache |-> [cache EXCEPT ![attr].state = "pending",
                                  ![attr].owner = owner_id],
          state |-> "pending", owner |-> owner_id, value |-> cache[attr].value]
    ELSE [cache |-> cache, state |-> cache[attr].state,
          owner |-> cache[attr].owner, value |-> cache[attr].value]

\* _mongocrypt_cache_add_copy: publish value under attr; the pair becomes done
\* and has no owner any more.
CacheAddCopy(cache, attr, value, owner_id) ==
  [cache EXCEPT ![attr] = [state |-> "done", owner |-> 0, value |-> value]]

\* _mongocrypt_cache_remove_by_owner: drop the pending pairs owner_id owns.
CacheRemoveByOwner(cache, owner_id) ==
  [a \in DOMAIN cache |->
     IF cache[a].state = "pending" /\ cache[a].owner = owner_id
       THEN [cache[a] EXCEPT !.state = "absent", !.owner = 0] ELSE cache[a]]

(* ------------------------------------------------ listCollections replies *)
\* A reply fed in NEED_MONGO_COLLINFO.  shape "malformed": not BSON at all;
\* "badschema": options.validator.$jsonSchema is present but no document;
\* "doc": a collinfo document of type collection or view whose $jsonSchema is
\* schema (0: there is none).
CollinfoDocs ==
  { [shape |-> "doc", view |-> FALSE, schema |-> s] : s \in 0..NumSchemas }
    \cup { [shape |-> "doc", view |-> TRUE, schema |-> 0],
           [shape |-> "badschema", view |-> FALSE, schema |-> 0] }

CollinfoReplies ==
  CollinfoDocs \cup { [shape |-> "malformed", view |-> FALSE, schema |-> 0] }

(* ------------------------------------------------- values and documents *)
\* One value of a document.  t is "plain" (a value of BSON type bt and payload
\* v that is no subtype-6 binary), "marking" (key: its key_id or 0, name: its
\* key_alt_name or 0, bt and v: the value to encrypt, alg), "badmarking" (a
\* marking that does not parse) or "blob" (a subtype-6 binary of len bytes: sub
\* is its first byte, key the byte its next sixteen bytes repeat, bt its
\* eighteenth byte and v the byte the rest repeats).
Elem(t, sub, key, name, bt, v, alg, len) ==
  [t |-> t, sub |-> sub, key |-> key, name |-> name, bt |-> bt, v |-> v,
   alg |-> alg, len |-> len]

\* the BSON type of the value with payload v: odd payloads are UTF-8 strings
\* (type 2), even ones 32-bit integers (type 16)
BsonTypeOf(v) == IF v % 2 = 1 THEN 2 ELSE 16

\* the value of BSON type bt with payload v
Value(bt, v) == Elem("plain", 0, 0, 0, bt, v, "NONE", 0)

Plain(v) == Value(BsonTypeOf(v), v)

Marking(key, name, v, alg) ==
  Elem("marking", 0, key, name, BsonTypeOf(v), v, alg, 0)

\* the marking the explicit encryption makes up for the value x of its message
MarkingOfValue(key, x, alg) == Elem("marking", 0, key, 0, x.bt, x.v, alg, 0)

BadMarking == Elem("badmarking", 0, 0, 0, 0, 0, "NONE", 0)

Blob(sub, key, bt, v, len) == Elem("blob", sub, key, 0, bt, v, "NONE", len)

\* the bytes of the subtype-6 binary b
BlobBytes(b) ==
  [i \in 1..b.len |-> IF i = 1 THEN b.sub
                      ELSE IF i <= 17 THEN b.key
                      ELSE IF i = 18 THEN b.bt
                      ELSE b.v]

\* a document is the sequence of its values; these stand for an empty buffer
\* (no document at all) and for bytes that are not BSON
NoBuf == << Elem("nobuf", 0, 0, 0, 0, 0, "NONE", 0) >>

NotBson == << Elem("notbson", 0, 0, 0, 0, 0, "NONE", 0) >>

DocsOver(E) == UNION { [1..n -> E] : n \in 0..MaxFields }

(* ----------------------------------------------------------- the options *)
\* _mongocrypt_ctx_opts_t.  0 stands for "not set" in the numeric fields.
DefaultOpts ==
  [masterkey_aws |-> FALSE, local_schema |-> 0, key_id |-> 0,
   key_alt_name |-> 0, iv |-> FALSE, algorithm |-> "NONE"]

\* the option sets the callers of the model try
AutoOpts ==
  { DefaultOpts }
    \cup { [DefaultOpts EXCEPT !.local_schema = s] : s \in Schemas }
    \cup { [DefaultOpts EXCEPT !.masterkey_aws = TRUE],
           [DefaultOpts EXCEPT !.key_id = 1],
           [DefaultOpts EXCEPT !.key_alt_name = 1],
           [DefaultOpts EXCEPT !.iv = TRUE],
           [DefaultOpts EXCEPT !.algorithm = "DETERMINISTIC"] }

\* _mongocrypt_ctx_opts_spec_t: each field OPT_PROHIBITED, OPT_REQUIRED or
\* OPT_OPTIONAL; a zeroed spec prohibits everything.
ZeroSpec ==
  [masterkey |-> "OPT_PROHIBITED", schema |-> "OPT_PROHIBITED",
   key_descriptor |-> "OPT_PROHIBITED", iv |-> "OPT_PROHIBITED",
   algorithm |-> "OPT_PROHIBITED"]

OptMatches(isset, how) ==
  CASE how = "OPT_PROHIBITED" -> ~isset
    [] how = "OPT_REQUIRED" -> isset
    [] OTHER -> TRUE

\* the option validation of _mongocrypt_ctx_init
OptsValid(o, spec) ==
  /\ OptMatches(o.masterkey_aws, spec.masterkey)
  /\ OptMatches(o.local_schema # 0, spec.schema)
  /\ OptMatches(o.key_id # 0 \/ o.key_alt_name # 0, spec.key_descriptor)
  /\ ~(o.key_id # 0 /\ o.key_alt_name # 0)
  /\ OptMatches(o.iv, spec.iv)
  /\ OptMatches(o.algorithm # "NONE", spec.algorithm)

(* ---------------------------------------------------------- the contexts *)
\* mongocrypt_ctx_t (with _mongocrypt_ctx_encrypt_t / _mongocrypt_ctx_decrypt_t)
\* as mongocrypt_ctx_new leaves it.  phase, fed, ret, woke, waited, dep_ret and pc are not
\* fields of the struct: phase tells whether init or cleanup has run, fed counts
\* the listCollections replies the context has published, ret is the result of
\* the last call on the context ("rejected": the dispatcher refused it), woke
\* whether that call was a wait_done that took the context out of WAITING,
\* waited whether a wait_done has returned and left the context in WAITING,
\* dep_ret the value next_dependent_ctx_id returned last since the context
\* looked its dependency up (-1: not called since) and pc the position of a
\* thread inside a blocking wait_done.  opts holds the options the handlers
\* read after init, vtable the names of the callbacks that are set.
NewCtx ==
  [phase |-> "new", state |-> "NONE", status |-> "ok", kind |-> "none",
   opts |-> DefaultOpts, cache_noblock |-> FALSE,
   kb |-> [k \in Keys |-> "none"],
   ns |-> 0, waiting_for_collinfo |-> FALSE,
   collinfo_state |-> "pending", collinfo_owner |-> 0,
   schema |-> 0, fed |-> 0,
   original_cmd |-> NoBuf, marked_cmd |-> NoBuf, encrypted_cmd |-> NoBuf,
   original_doc |-> NoBuf, unwrapped_doc |-> NoBuf, decrypted_doc |-> NoBuf,
   vtable |-> {},
   ret |-> "none", woke |-> FALSE, waited |-> FALSE, dep_ret |-> -1,
   pc |-> "idle"]

\* _mongocrypt_ctx_fail_w_msg: set an error status and go to the error state
CtxFailWMsg(r) ==
  [r EXCEPT !.status = "error", !.state = "ERROR", !.ret = "false",
            !.woke = FALSE, !.waited = FALSE]

\* _mongocrypt_ctx_fail: go to the error state; an error status must have been set
CtxFail(r) ==
  [r EXCEPT !.state = "ERROR", !.ret = "false", !.woke = FALSE, !.waited = FALSE]

Ok(r) == [r EXCEPT !.ret = "true", !.woke = FALSE, !.waited = FALSE]

Live(c) == ctx[c].phase = "live"

Terminal(c) == ctx[c].state \in {"ERROR", "DONE"}

\* the broadcast on a cache's condition: every context sleeping on that cache
\* in a blocking wait_done is woken
Broadcast(cs, on_collinfo) ==
  [c \in Ctx |->
     IF cs[c].pc = "sleeping" /\ cs[c].waiting_for_collinfo = on_collinfo
       THEN [cs[c] EXCEPT !.pc = "woken"] ELSE cs[c]]

(* --------------------------------------------------------------- Init    *)
Init ==
  /\ ctx = [c \in Ctx |-> NewCtx]
  /\ cache_collinfo = [n \in Ns |-> NoPair(NoCollinfo)]
  /\ cache_key = [k \in Keys |-> NoPair(0)]
  /\ cache_noblock \in BOOLEAN

\* a _set_schema_from_collinfo that takes the schema of a view as it takes
\* that of a collection
SetSchemaFromCollinfoOfView(r, collinfo) ==
  IF collinfo.shape = "malformed"
    THEN [ok |-> FALSE, r |-> CtxFailWMsg(r)]
  ELSE IF collinfo.shape = "badschema"
    THEN [ok |-> FALSE, r |-> CtxFailWMsg(r)]
  ELSE IF collinfo.schema # 0
    THEN [ok |-> TRUE, r |-> [r EXCEPT !.schema = collinfo.schema]]
  ELSE [ok |-> TRUE, r |-> r]

(* ------------------------------------------------- automatic encryption  *)
\* _set_schema_from_collinfo: views are refused, the $jsonSchema (when there is
\* one) is copied to ectx->schema.
SetSchemaFromCollinfo(r, collinfo) ==
  IF collinfo.shape = "doc" /\ collinfo.view
    THEN [ok |-> FALSE, r |-> CtxFailWMsg(r)]
  ELSE IF collinfo.shape = "malformed"
    THEN [ok |-> FALSE, r |-> CtxFailWMsg(r)]
  ELSE IF collinfo.shape = "badschema"
    THEN [ok |-> FALSE, r |-> CtxFailWMsg(r)]
  ELSE IF collinfo.schema # 0
    THEN [ok |-> TRUE, r |-> [r EXCEPT !.schema = collinfo.schema]]
  ELSE [ok |-> TRUE, r |-> r]

\* _try_collinfo_from_cache without the comparison of the owner with the
\* context's id: every context that finds no done pair fetches the collinfo
\* itself.  C4_SingleOwner does not hold of it.
TryCollinfoFromCacheAllOwn(r, id, cache) ==
  LET reset == [r EXCEPT !.collinfo_owner = 0, !.collinfo_state = "pending",
                         !.waiting_for_collinfo = FALSE, !.dep_ret = -1]
      got == CacheGetOrCreate(cache, r.ns, id)
      seen == [reset EXCEPT !.collinfo_state = got.state,
                            !.collinfo_owner = got.owner]
      set == SetSchemaFromCollinfo(seen, got.value)
  IN  [cache |-> got.cache,
       r |-> IF seen.collinfo_state = "done"
               THEN IF ~set.ok
                      THEN CtxFail(set.r)
                      ELSE Ok([set.r EXCEPT !.state = "NEED_MONGO_MARKINGS"])
             ELSE Ok([seen EXCEPT !.state = "NEED_MONGO_COLLINFO"])]

\* _try_collinfo_from_cache taking the pair for done whenever it is called on
\* a context that has waited.  C5_WaitsForOwner does not hold of it.
TryCollinfoFromCacheAfterWait(r, id, cache) ==
  LET reset == [r EXCEPT !.collinfo_owner = 0, !.collinfo_state = "pending",
                         !.waiting_for_collinfo = FALSE, !.dep_ret = -1]
      got == CacheGetOrCreate(cache, r.ns, id)
      seen == [reset EXCEPT !.collinfo_state = got.state,
                            !.collinfo_owner = got.owner]
      set == SetSchemaFromCollinfo(seen, got.value)
  IN  [cache |-> got.cache,
       r |-> IF seen.collinfo_state = "done" \/ r.state = "WAITING"
               THEN IF ~set.ok
                      THEN CtxFail(set.r)
                      ELSE Ok([set.r EXCEPT !.state = "NEED_MONGO_MARKINGS"])
             ELSE IF seen.collinfo_owner = id
               THEN Ok([seen EXCEPT !.state = "NEED_MONGO_COLLINFO"])
             ELSE Ok([seen EXCEPT !.waiting_for_collinfo = TRUE,
                                  !.state = "WAITING"])]

\* _try_collinfo_from_cache without the call of _set_schema_from_collinfo on
\* a done pair.  C6_OneQueryOneSchema does not hold of it.
TryCollinfoFromCacheNoSchema(r, id, cache) ==
  LET reset == [r EXCEPT !.collinfo_owner = 0, !.collinfo_state = "pending",
                         !.waiting_for_collinfo = FALSE, !.dep_ret = -1]
      got == CacheGetOrCreate(cache, r.ns, id)
      seen == [reset EXCEPT !.collinfo_state = got.state,
                            !.collinfo_owner = got.owner]
  IN  [cache |-> got.cache,
       r |-> IF seen.collinfo_state = "done"
               THEN Ok([seen EXCEPT !.state = "NEED_MONGO_MARKINGS"])
             ELSE IF seen.collinfo_owner = id
               THEN Ok([seen EXCEPT !.state = "NEED_MONGO_COLLINFO"])
             ELSE Ok([seen EXCEPT !.waiting_for_collinfo = TRUE,
                                  !.state = "WAITING"])]

\* _try_collinfo_from_cache not taking the pair's owner from the cache:
\* collinfo_owner stays as the reset left it.  C7_OwnerReelected does not hold
\* of it.
TryCollinfoFromCacheNoOwner(r, id, cache) ==
  LET reset == [r EXCEPT !.collinfo_owner = 0, !.collinfo_state = "pending",
                         !.waiting_for_collinfo = FALSE, !.dep_ret = -1]
      got == CacheGetOrCreate(cache, r.ns, id)
      seen == [reset EXCEPT !.collinfo_state = got.state]
      set == SetSchemaFromCollinfo(seen, got.value)
  IN  [cache |-> got.cache,
       r |-> IF seen.collinfo_state = "done"
               THEN IF ~set.ok
                      THEN CtxFail(set.r)
                      ELSE Ok([set.r EXCEPT !.state = "NEED_MONGO_MARKINGS"])
             ELSE IF seen.collinfo_owner = id
               THEN Ok([seen EXCEPT !.state = "NEED_MONGO_COLLINFO"])
             ELSE Ok([seen EXCEPT !.waiting_for_collinfo = TRUE,
                                  !.state = "WAITING"])]

\* a _try_collinfo_from_cache that fetches the collinfo again when the pair is
\* done
TryCollinfoFromCacheRefetch(r, id, cache) ==
  LET reset == [r EXCEPT !.collinfo_owner = 0, !.collinfo_state = "pending",
                         !.waiting_for_collinfo = FALSE, !.dep_ret = -1]
      got == CacheGetOrCreate(cache, r.ns, id)
      seen == [reset EXCEPT !.collinfo_state = got.state,
                            !.collinfo_owner = got.owner]
  IN  [cache |-> got.cache,
       r |-> IF seen.collinfo_state = "done"
               THEN Ok([seen EXCEPT !.state = "NEED_MONGO_COLLINFO"])
             ELSE IF seen.collinfo_owner = id
               THEN Ok([seen EXCEPT !.state = "NEED_MONGO_COLLINFO"])
             ELSE Ok([seen EXCEPT !.waiting_for_collinfo = TRUE,
                                  !.state = "WAITING"])]

\* _try_collinfo_from_cache without the reset of waiting_for_collinfo at its
\* start.  C26_WaitingFlagOnlyInWaiting does not hold of it.
TryCollinfoFromCacheFlagKept(r, id, cache) ==
  LET reset == [r EXCEPT !.collinfo_owner = 0, !.collinfo_state = "pending",
                         !.dep_ret = -1]
      got == CacheGetOrCreate(cache, r.ns, id)
      seen == [reset EXCEPT !.collinfo_state = got.state,
                            !.collinfo_owner = got.owner]
      set == SetSchemaFromCollinfo(seen, got.value)
  IN  [cache |-> got.cache,
       r |-> IF seen.collinfo_state = "done"
               THEN IF ~set.ok
                      THEN CtxFail(set.r)
                      ELSE Ok([set.r EXCEPT !.state = "NEED_MONGO_MARKINGS"])
             ELSE IF seen.collinfo_owner = id
               THEN Ok([seen EXCEPT !.state = "NEED_MONGO_COLLINFO"])
             ELSE Ok([seen EXCEPT !.waiting_for_collinfo = TRUE,
                                  !.state = "WAITING"])]

\* _try_collinfo_from_cache, for the context with id id: the new context
\* record and the new collinfo cache.
TryCollinfoFromCache(r, id, cache) ==
  LET reset == [r EXCEPT !.collinfo_owner = 0, !.collinfo_state = "pending",
                         !.waiting_for_collinfo = FALSE, !.dep_ret = -1]
      got == CacheGetOrCreate(cache, r.ns, id)
      seen == [reset EXCEPT !.collinfo_state = got.state,
                            !.collinfo_owner = got.owner]
      set == SetSchemaFromCollinfo(seen, got.value)
  IN  [cache |-> got.cache,
       r |-> IF seen.collinfo_state = "done"
               THEN IF ~set.ok
                      THEN CtxFail(set.r)
                      ELSE Ok([set.r EXCEPT !.state = "NEED_MONGO_MARKINGS"])
             ELSE IF seen.collinfo_owner = id
               THEN Ok([seen EXCEPT !.state = "NEED_MONGO_COLLINFO"])
             ELSE Ok([seen EXCEPT !.waiting_for_collinfo = TRUE,
                                  !.state = "WAITING"])]

\* the callbacks of _mongocrypt_vtable_t: those every context has by default,
\* those each init of a derived context sets and those only the automatic
\* encryption sets
KeyCallbacks ==
  {"mongo_op_keys", "mongo_feed_keys", "mongo_done_keys", "next_kms_ctx",
   "kms_done"}

DerivedCallbacks == {"finalize", "cleanup", "wait_done", "next_dependent_ctx_id"}

CollinfoCallbacks ==
  {"mongo_op_collinfo", "mongo_feed_collinfo", "mongo_done_collinfo"}

MarkingsCallbacks ==
  {"mongo_op_markings", "mongo_feed_markings", "mongo_done_markings"}

\* a _mongocrypt_ctx_init that sets no default callback
CtxInitNoDefaults(r, o, spec) ==
  LET r1 == [r EXCEPT !.phase = "live", !.cache_noblock = cache_noblock]
  IN  IF OptsValid(o, spec)
        THEN [ok |-> TRUE, r |-> r1]
        ELSE [ok |-> FALSE, r |-> CtxFailWMsg(r1)]

\* _mongocrypt_ctx_init: common initialization; the options are validated
\* against the kind's spec, the engine's cache_noblock is copied and the
\* default callbacks of the key and KMS states are set.
CtxInit(r, o, spec) ==
  LET r1 == [r EXCEPT !.phase = "live", !.cache_noblock = cache_noblock,
                      !.vtable = KeyCallbacks]
  IN  IF OptsValid(o, spec)
        THEN [ok |-> TRUE, r |-> r1]
        ELSE [ok |-> FALSE, r |-> CtxFailWMsg(r1)]

\* contexts are initialized in the order of their ids
NextToInit(c) ==
  /\ ctx[c].phase = "new"
  /\ \A d \in Ctx : d < c => ctx[d].phase # "new"

\* a mongocrypt_ctx_encrypt_init that looks the collinfo up although a local
\* schema is set
EncryptInitIgnoresLocalSchema(c, o, ns) ==
  LET spec == [ZeroSpec EXCEPT !.schema = "OPT_OPTIONAL"]
      i == CtxInit(ctx[c], o, spec)
      r1 == [i.r EXCEPT !.kind = "encrypt",
                        !.vtable = i.r.vtable \cup DerivedCallbacks
                                     \cup CollinfoCallbacks \cup MarkingsCallbacks]
      r2 == [r1 EXCEPT !.ns = ns]
      t == TryCollinfoFromCache(r2, c, cache_collinfo)
  IN  /\ NextToInit(c)
      /\ IF ~i.ok
            THEN /\ ctx' = [ctx EXCEPT ![c] = i.r]
                 /\ UNCHANGED cache_collinfo
          ELSE IF ns = 0
            THEN /\ ctx' = [ctx EXCEPT ![c] = CtxFailWMsg(r1)]
                 /\ UNCHANGED cache_collinfo
          ELSE /\ ctx' = [ctx EXCEPT ![c] = t.r]
               /\ cache_collinfo' = t.cache
      /\ UNCHANGED << cache_key, cache_noblock >>

\* a mongocrypt_ctx_encrypt_init that looks the collinfo up before it
\* validates its options
EncryptInitLookupFirst(c, o, ns) ==
  LET spec == [ZeroSpec EXCEPT !.schema = "OPT_OPTIONAL"]
      i == CtxInit(ctx[c], o, spec)
      r1 == [i.r EXCEPT !.kind = "encrypt",
                        !.vtable = i.r.vtable \cup DerivedCallbacks
                                     \cup CollinfoCallbacks \cup MarkingsCallbacks]
      r2 == [r1 EXCEPT !.ns = ns]
      t == TryCollinfoFromCache(r2, c, cache_collinfo)
  IN  /\ NextToInit(c)
      /\ IF ns = 0
            THEN /\ ctx' = [ctx EXCEPT ![c] = CtxFailWMsg(r1)]
                 /\ UNCHANGED cache_collinfo
          ELSE /\ cache_collinfo' = t.cache
               /\ ctx' = [ctx EXCEPT ![c] =
                            IF ~i.ok THEN CtxFailWMsg(t.r) ELSE t.r]
      /\ UNCHANGED << cache_key, cache_noblock >>

\* mongocrypt_ctx_encrypt_init (ctx, ns, ns_len) with options o; ns 0 is a
\* missing namespace or one without a '.'.
EncryptInit(c, o, ns) ==
  LET spec == [ZeroSpec EXCEPT !.schema = "OPT_OPTIONAL"]
      i == CtxInit(ctx[c], o, spec)
      r1 == [i.r EXCEPT !.kind = "encrypt",
                        !.vtable = i.r.vtable \cup DerivedCallbacks
                                     \cup CollinfoCallbacks \cup MarkingsCallbacks]
      r2 == [r1 EXCEPT !.ns = ns]
      t == TryCollinfoFromCache(r2, c, cache_collinfo)
  IN  /\ NextToInit(c)
      /\ IF ~i.ok
            THEN /\ ctx' = [ctx EXCEPT ![c] = i.r]
                 /\ UNCHANGED cache_collinfo
          ELSE IF ns = 0
            THEN /\ ctx' = [ctx EXCEPT ![c] = CtxFailWMsg(r1)]
                 /\ UNCHANGED cache_collinfo
          ELSE IF o.masterkey_aws \/ o.key_id # 0 \/ o.algorithm # "NONE" \/ o.iv
            THEN /\ ctx' = [ctx EXCEPT ![c] = CtxFailWMsg(r1)]
                 /\ UNCHANGED cache_collinfo
          ELSE IF o.local_schema # 0
            THEN /\ ctx' = [ctx EXCEPT ![c] =
                              Ok([r2 EXCEPT !.schema = o.local_schema,
                                            !.state = "NEED_MONGO_MARKINGS"])]
                 /\ UNCHANGED cache_collinfo
          ELSE /\ ctx' = [ctx EXCEPT ![c] = t.r]
               /\ cache_collinfo' = t.cache
      /\ UNCHANGED << cache_key, cache_noblock >>

\* a dispatch that does not look at the context's state.  C2_TerminalIsFinal
\* does not hold of it.
CallableAnyState(c, st) ==
  /\ Live(c)
  /\ ctx[c].pc = "idle"

\* a call the public dispatch function can hand to a handler of the context
Callable(c, st) ==
  /\ Live(c)
  /\ ctx[c].pc = "idle"
  /\ ctx[c].state = st

\* mongocrypt_ctx_mongo_op in NEED_MONGO_COLLINFO: _mongo_op_collinfo builds
\* the filter {"name": coll_name} in a scratch buffer and hands it out
MongoOpCollinfo(c) ==
  /\ Callable(c, "NEED_MONGO_COLLINFO")
  /\ ctx' = [ctx EXCEPT ![c] = Ok(ctx[c])]
  /\ UNCHANGED << cache_collinfo, cache_key, cache_noblock >>

\* mongocrypt_ctx_mongo_feed in NEED_MONGO_COLLINFO: _mongo_feed_collinfo;
\* cache_ok is whether _mongocrypt_cache_add_copy succeeds.
MongoFeedCollinfo(c, in, cache_ok) ==
  LET r == ctx[c]
      pub == [r EXCEPT !.fed = @ + 1]
      set == SetSchemaFromCollinfo(pub, in)
  IN  /\ Callable(c, "NEED_MONGO_COLLINFO")
      /\ r.fed < MaxFeeds
      /\ IF in.shape = "malformed"
            THEN /\ ctx' = [ctx EXCEPT ![c] = CtxFailWMsg(r)]
                 /\ UNCHANGED cache_collinfo
          ELSE IF ~cache_ok
            THEN /\ ctx' = [ctx EXCEPT ![c] = CtxFail([r EXCEPT !.status = "error"])]
                 /\ UNCHANGED cache_collinfo
          ELSE /\ cache_collinfo' = CacheAddCopy(cache_collinfo, r.ns, in, c)
               /\ ctx' = Broadcast([ctx EXCEPT ![c] =
                                       IF set.ok THEN Ok(set.r) ELSE set.r], TRUE)
      /\ UNCHANGED << cache_key, cache_noblock >>

\* mongocrypt_ctx_mongo_done in NEED_MONGO_COLLINFO: _mongo_done_collinfo
MongoDoneCollinfo(c) ==
  /\ Callable(c, "NEED_MONGO_COLLINFO")
  /\ ctx' = [ctx EXCEPT ![c] =
              Ok([ctx[c] EXCEPT !.state = IF ctx[c].schema = 0
                                            THEN "NOTHING_TO_DO"
                                            ELSE "NEED_MONGO_MARKINGS"])]
  /\ UNCHANGED << cache_collinfo, cache_key, cache_noblock >>

(* --------------------------------------------------------- the key broker *)
\* A broker entry is "none" (not requested), "empty" (requested; this context
\* owns the fetch), "encrypted" (key document fed, KMS pending), "decrypted" or
\* "waiting" (another context owns the fetch).

\* _mongocrypt_key_broker_add_id / _add_name for key k by the context with id
\* id: the new broker and the new key cache.  A second add of k changes nothing.
KbAdd(kb, id, cache, k) ==
  LET got == CacheGetOrCreate(cache, k, id)
  IN  IF kb[k] # "none"
        THEN [kb |-> kb, cache |-> cache]
        ELSE [cache |-> got.cache,
              kb |-> [kb EXCEPT ![k] = IF got.state = "done" THEN "decrypted"
                                       ELSE IF got.owner = id THEN "empty"
                                       ELSE "waiting"]]

\* the re-check of _mongocrypt_key_broker_check_cache_and_wait over the keys
\* from k upwards: a waiting entry whose pair is done is copied, one whose pair
\* has gone is fetched by this context, one still pending elsewhere waits on.
RECURSIVE KbCheckCache(_, _, _, _)
KbCheckCache(kb, id, cache, k) ==
  IF k > NumKeys
    THEN [kb |-> kb, cache |-> cache]
  ELSE IF kb[k] # "waiting"
    THEN KbCheckCache(kb, id, cache, k + 1)
  ELSE LET got == CacheGetOrCreate(cache, k, id)
       IN  KbCheckCache([kb EXCEPT ![k] = IF got.state = "done" THEN "decrypted"
                                          ELSE IF got.owner = id THEN "empty"
                                          ELSE "waiting"],
                        id, got.cache, k + 1)

KbHas(kb, st) == \E k \in Keys : kb[k] = st

\* _mongocrypt_key_broker_next_ctx_id: the owner of the next pending dependency
KbNextCtxId(kb, cache) ==
  IF KbHas(kb, "waiting")
    THEN cache[CHOOSE k \in Keys : kb[k] = "waiting" /\
                 \A j \in Keys : kb[j] = "waiting" => k <= j].owner
    ELSE 0

\* _mongocrypt_ctx_state_from_key_broker
CtxStateFromKeyBroker(r) ==
  Ok([r EXCEPT !.state =
        IF KbHas(r.kb, "empty") THEN "NEED_MONGO_KEYS"
        ELSE IF KbHas(r.kb, "encrypted") THEN "NEED_KMS"
        ELSE IF KbHas(r.kb, "waiting") THEN "WAITING"
        ELSE "READY"])

(* ------------------------------------------------- waiting and cleaning up *)
IsEncrypt(r) == r.kind \in {"encrypt", "explicit_encrypt"}

IsDecrypt(r) == r.kind \in {"decrypt", "explicit_decrypt"}

\* what _wait_done does once it holds the cache: the encrypt context re-runs the
\* collinfo lookup or re-evaluates its state from the key broker; the decrypt
\* context re-checks the key cache and returns.
WaitDoneCheck(c) ==
  LET r == ctx[c]
      t == TryCollinfoFromCache(r, c, cache_collinfo)
      k == KbCheckCache(r.kb, c, cache_key, 1)
      rk == [r EXCEPT !.kb = k.kb, !.dep_ret = -1]
      nk == IF IsEncrypt(r) THEN CtxStateFromKeyBroker(rk) ELSE Ok(rk)
      out(n) == [n EXCEPT !.pc = "idle",
                          !.woke = n.state \notin {"WAITING", "ERROR"},
                          !.waited = n.state = "WAITING"]
  IN  IF IsEncrypt(r) /\ r.waiting_for_collinfo
        THEN /\ ctx' = [ctx EXCEPT ![c] = out(t.r)]
             /\ cache_collinfo' = t.cache
             /\ UNCHANGED cache_key
        ELSE /\ ctx' = [ctx EXCEPT ![c] = out(nk)]
             /\ cache_key' = k.cache
             /\ UNCHANGED cache_collinfo

StillPending(c) ==
  LET r == ctx[c]
  IN  IF IsEncrypt(r) /\ r.waiting_for_collinfo
        THEN TRUE
        ELSE KbHas(KbCheckCache(r.kb, c, cache_key, 1).kb, "waiting")

\* a wait_done that sleeps on the cache's condition whatever cache_noblock is
WaitDoneAlwaysSleeps(c, ok) ==
  LET r == ctx[c]
  IN  /\ Callable(c, "WAITING")
      /\ IF ~ok
            THEN /\ ctx' = [ctx EXCEPT ![c] = CtxFail([r EXCEPT !.status = "error"])]
                 /\ UNCHANGED << cache_collinfo, cache_key >>
          ELSE IF StillPending(c)
            THEN /\ ctx' = [ctx EXCEPT ![c].pc = "sleeping"]
                 /\ UNCHANGED << cache_collinfo, cache_key >>
          ELSE WaitDoneCheck(c)
      /\ UNCHANGED cache_noblock

\* mongocrypt_ctx_wait_done in WAITING: the _wait_done of the context's kind.
\* ok is whether the collaborator (_mongocrypt_cache_wait, the key broker)
\* succeeds.  With cache_noblock unset and the dependency still pending the
\* call goes to sleep on the cache's condition.
WaitDone(c, ok) ==
  LET r == ctx[c]
  IN  /\ Callable(c, "WAITING")
      /\ IF ~ok /\ ~(IsEncrypt(r) /\ r.waiting_for_collinfo /\ r.cache_noblock)
            THEN /\ ctx' = [ctx EXCEPT ![c] = CtxFail([r EXCEPT !.status = "error"])]
                 /\ UNCHANGED << cache_collinfo, cache_key >>
          ELSE IF ~r.cache_noblock /\ StillPending(c)
            THEN /\ ctx' = [ctx EXCEPT ![c].pc = "sleeping"]
                 /\ UNCHANGED << cache_collinfo, cache_key >>
          ELSE WaitDoneCheck(c)
      /\ UNCHANGED cache_noblock

\* the thread sleeping in wait_done has been woken and finishes the call
WaitDoneWoken(c) ==
  /\ Live(c)
  /\ ctx[c].pc = "woken"
  /\ WaitDoneCheck(c)
  /\ UNCHANGED cache_noblock

\* _next_dependent_ctx_id clearing collinfo_owner before it reads it.
\* C9_SecondWaitsOnFirst does not hold of it.
NextDependentCtxIdCleared(c) ==
  LET r == ctx[c]
  IN  /\ Callable(c, "WAITING")
      /\ ctx' = [ctx EXCEPT ![c] =
                  IF IsEncrypt(r) /\ r.waiting_for_collinfo
                    THEN [r EXCEPT !.dep_ret = 0, !.collinfo_owner = 0]
                    ELSE [r EXCEPT !.dep_ret = KbNextCtxId(r.kb, cache_key)]]
      /\ UNCHANGED << cache_collinfo, cache_key, cache_noblock >>

\* _next_dependent_ctx_id returning collinfo_owner without setting it to 0.
\* C27_OwnerOncePerLookup does not hold of it.
NextDependentCtxIdOwnerKept(c) ==
  LET r == ctx[c]
  IN  /\ Callable(c, "WAITING")
      /\ ctx' = [ctx EXCEPT ![c] =
                  IF IsEncrypt(r) /\ r.waiting_for_collinfo
                    THEN [r EXCEPT !.dep_ret = r.collinfo_owner]
                    ELSE [r EXCEPT !.dep_ret = KbNextCtxId(r.kb, cache_key)]]
      /\ UNCHANGED << cache_collinfo, cache_key, cache_noblock >>

\* mongocrypt_ctx_next_dependent_ctx_id in WAITING: _next_dependent_ctx_id
NextDependentCtxId(c) ==
  LET r == ctx[c]
  IN  /\ Callable(c, "WAITING")
      /\ ctx' = [ctx EXCEPT ![c] =
                  IF IsEncrypt(r) /\ r.waiting_for_collinfo
                    THEN [r EXCEPT !.dep_ret = r.collinfo_owner, !.collinfo_owner = 0]
                    ELSE [r EXCEPT !.dep_ret = KbNextCtxId(r.kb, cache_key)]]
      /\ UNCHANGED << cache_collinfo, cache_key, cache_noblock >>

\* what is left of a context after mongocrypt_ctx_destroy
Destroyed == [NewCtx EXCEPT !.phase = "destroyed"]

\* a _cleanup that drops the pair of the context's namespace whatever its
\* state and owner.  C8_CleanupRemovesOwnPending does not hold of it.
EncryptCleanupByNs(c) ==
  [n \in Ns |-> IF n = ctx[c].ns THEN NoPair(NoCollinfo) ELSE cache_collinfo[n]]

\* _cleanup of the encrypt kinds: the collinfo cache after it
EncryptCleanup(c) == CacheRemoveByOwner(cache_collinfo, c)

\* mongocrypt_ctx_destroy: the kind's _cleanup, then the key broker's cleanup,
\* which gives up the key fetches this context owns.
Cleanup(c) ==
  LET r == ctx[c]
      ci == IF IsEncrypt(r) THEN EncryptCleanup(c) ELSE cache_collinfo
      ck == CacheRemoveByOwner(cache_key, c)
      gone == [ctx EXCEPT ![c] = Destroyed]
      woken1 == IF ci # cache_collinfo THEN Broadcast(gone, TRUE) ELSE gone
  IN  /\ Live(c)
      /\ r.pc = "idle"
      /\ cache_collinfo' = ci
      /\ cache_key' = ck
      /\ ctx' = IF ck # cache_key THEN Broadcast(woken1, FALSE) ELSE woken1
      /\ UNCHANGED cache_noblock

\* a call on a context in ERROR or DONE (op, feed, done, wait_done, finalize):
\* the dispatcher refuses it
Rejected(c) ==
  /\ Live(c)
  /\ Terminal(c)
  /\ ctx' = [ctx EXCEPT ![c].ret = "rejected"]
  /\ UNCHANGED << cache_collinfo, cache_key, cache_noblock >>

(* ------------------------------------------------------ the marking step *)
\* the marked commands the query analysis may answer with
MarkElems ==
  { Plain(v) : v \in Vals }
    \cup { Marking(k, 0, v, "DETERMINISTIC") : k \in Keys, v \in Vals }
    \cup { Marking(0, k, v, "RANDOM") : k \in Keys, v \in Vals }
    \cup { BadMarking }

MarkedCmds == DocsOver(MarkElems)

Tri == {"absent", "true", "false"}

\* A reply fed in NEED_MONGO_MARKINGS: schemaRequiresEncryption and
\* hasEncryptedPlaceholders (absent, true or false) and result ("absent",
\* "notdoc": no document, or "doc": the marked command cmd).
MarkingReplies ==
  { [shape |-> "malformed", sre |-> "absent", hep |-> "absent",
     result |-> "absent", cmd |-> << >>] }
    \cup { [shape |-> "doc", sre |-> a, hep |-> b, result |-> x, cmd |-> << >>] :
             a \in Tri, b \in Tri, x \in {"absent", "notdoc"} }
    \cup { [shape |-> "doc", sre |-> a, hep |-> b, result |-> "doc", cmd |-> d] :
             a \in Tri, b \in Tri, d \in MarkedCmds }

\* the key a marking names: an alt-name resolves to the key of the same number
MarkingKey(m) == IF m.name # 0 THEN m.name ELSE m.key

\* _mongocrypt_traverse_binary_in_bson with _collect_key_from_marking over the
\* values of doc from position i: ok is FALSE when a marking does not parse;
\* the keys of the markings before it have been added by then.
RECURSIVE CollectKeysFromMarkings(_, _, _, _, _)
CollectKeysFromMarkings(doc, i, kb, id, cache) ==
  IF i > Len(doc)
    THEN [ok |-> TRUE, kb |-> kb, cache |-> cache]
  ELSE IF doc[i].t = "badmarking"
    THEN [ok |-> FALSE, kb |-> kb, cache |-> cache]
  ELSE IF doc[i].t = "marking"
    THEN LET a == KbAdd(kb, id, cache, MarkingKey(doc[i]))
         IN  CollectKeysFromMarkings(doc, i + 1, a.kb, id, a.cache)
  ELSE CollectKeysFromMarkings(doc, i + 1, kb, id, cache)

\* mongocrypt_ctx_mongo_op in NEED_MONGO_MARKINGS: _mongo_op_markings hands
\* out the schema
MongoOpMarkings(c) ==
  /\ Callable(c, "NEED_MONGO_MARKINGS")
  /\ ctx' = [ctx EXCEPT ![c] = Ok(ctx[c])]
  /\ UNCHANGED << cache_collinfo, cache_key, cache_noblock >>

\* a _mongo_feed_markings that reads the result before it looks at
\* schemaRequiresEncryption and hasEncryptedPlaceholders
MongoFeedMarkingsResultFirst(c, in) ==
  LET r == ctx[c]
      got == CollectKeysFromMarkings(in.cmd, 1, r.kb, c, cache_key)
      stored == [r EXCEPT !.marked_cmd = in.cmd, !.kb = got.kb]
  IN  /\ Callable(c, "NEED_MONGO_MARKINGS")
      /\ IF in.shape = "malformed"
            THEN /\ ctx' = [ctx EXCEPT ![c] = CtxFailWMsg(r)]
                 /\ UNCHANGED cache_key
          ELSE IF in.result = "absent"
            THEN /\ ctx' = [ctx EXCEPT ![c] = CtxFailWMsg(r)]
                 /\ UNCHANGED cache_key
          ELSE IF in.result = "notdoc"
            THEN /\ ctx' = [ctx EXCEPT ![c] = CtxFailWMsg(r)]
                 /\ UNCHANGED cache_key
          ELSE /\ ctx' = [ctx EXCEPT ![c] =
                            IF got.ok THEN Ok(stored)
                            ELSE CtxFail([stored EXCEPT !.status = "error"])]
               /\ cache_key' = got.cache
      /\ UNCHANGED << cache_collinfo, cache_noblock >>

\* mongocrypt_ctx_mongo_feed in NEED_MONGO_MARKINGS: _mongo_feed_markings
MongoFeedMarkings(c, in) ==
  LET r == ctx[c]
      got == CollectKeysFromMarkings(in.cmd, 1, r.kb, c, cache_key)
      stored == [r EXCEPT !.marked_cmd = in.cmd, !.kb = got.kb]
  IN  /\ Callable(c, "NEED_MONGO_MARKINGS")
      /\ IF in.shape = "malformed"
            THEN /\ ctx' = [ctx EXCEPT ![c] = CtxFailWMsg(r)]
                 /\ UNCHANGED cache_key
          ELSE IF in.sre = "false"
            THEN /\ ctx' = [ctx EXCEPT ![c] = Ok(r)]
                 /\ UNCHANGED cache_key
          ELSE IF in.hep = "false"
            THEN /\ ctx' = [ctx EXCEPT ![c] = Ok(r)]
                 /\ UNCHANGED cache_key
          ELSE IF in.result = "absent"
            THEN /\ ctx' = [ctx EXCEPT ![c] = CtxFailWMsg(r)]
                 /\ UNCHANGED cache_key
          ELSE IF in.result = "notdoc"
            THEN /\ ctx' = [ctx EXCEPT ![c] = CtxFailWMsg(r)]
                 /\ UNCHANGED cache_key
          ELSE /\ ctx' = [ctx EXCEPT ![c] =
                            IF got.ok THEN Ok(stored)
                            ELSE CtxFail([stored EXCEPT !.status = "error"])]
               /\ cache_key' = got.cache
      /\ UNCHANGED << cache_collinfo, cache_noblock >>

\* a _mongo_done_markings that decides the next state by the collinfo lookup.
\* C1_BackwardOnlyFromWaiting does not hold of it.
MongoDoneMarkingsRelookup(c) ==
  LET t == TryCollinfoFromCache(ctx[c], c, cache_collinfo)
  IN  /\ Callable(c, "NEED_MONGO_MARKINGS")
      /\ ctx' = [ctx EXCEPT ![c] = t.r]
      /\ cache_collinfo' = t.cache
      /\ UNCHANGED << cache_key, cache_noblock >>

\* mongocrypt_ctx_mongo_done in NEED_MONGO_MARKINGS: _mongo_done_markings
MongoDoneMarkings(c) ==
  /\ Callable(c, "NEED_MONGO_MARKINGS")
  /\ ctx' = [ctx EXCEPT ![c] = CtxStateFromKeyBroker(ctx[c])]
  /\ UNCHANGED << cache_collinfo, cache_key, cache_noblock >>

(* ------------------------------------------------- fetching the data keys *)
\* mongocrypt_ctx_mongo_op in NEED_MONGO_KEYS: the filter for the key documents
MongoOpKeys(c) ==
  /\ Callable(c, "NEED_MONGO_KEYS")
  /\ ctx' = [ctx EXCEPT ![c] = Ok(ctx[c])]
  /\ UNCHANGED << cache_collinfo, cache_key, cache_noblock >>

\* mongocrypt_ctx_mongo_feed in NEED_MONGO_KEYS: the key document of key k; a
\* document of a key this broker does not fetch is ignored
MongoFeedKeys(c, k) ==
  /\ Callable(c, "NEED_MONGO_KEYS")
  /\ ctx' = [ctx EXCEPT ![c] =
              Ok(IF ctx[c].kb[k] = "empty"
                   THEN [ctx[c] EXCEPT !.kb[k] = "encrypted"] ELSE ctx[c])]
  /\ UNCHANGED << cache_collinfo, cache_key, cache_noblock >>

\* mongocrypt_ctx_mongo_done in NEED_MONGO_KEYS
MongoDoneKeys(c) ==
  /\ Callable(c, "NEED_MONGO_KEYS")
  /\ ctx' = [ctx EXCEPT ![c] = CtxStateFromKeyBroker(ctx[c])]
  /\ UNCHANGED << cache_collinfo, cache_key, cache_noblock >>

\* the key cache once the context with key broker kb has decrypted its keys
RECURSIVE PublishKeys(_, _, _, _)
PublishKeys(kb, id, cache, k) ==
  IF k > NumKeys THEN cache
  ELSE PublishKeys(kb, id,
                   IF kb[k] = "encrypted" THEN CacheAddCopy(cache, k, k, id) ELSE cache,
                   k + 1)

\* mongocrypt_ctx_kms_done in NEED_KMS, after the KMS replies have been fed:
\* kms_ok is whether the KMS decrypted the key material.  The decrypted keys
\* are published to the key cache.
KmsDone(c, kms_ok) ==
  LET r == ctx[c]
      kb2 == [k \in Keys |-> IF r.kb[k] = "encrypted" THEN "decrypted" ELSE r.kb[k]]
  IN  /\ Callable(c, "NEED_KMS")
      /\ IF kms_ok
            THEN /\ cache_key' = PublishKeys(r.kb, c, cache_key, 1)
                 /\ ctx' = Broadcast([ctx EXCEPT ![c] =
                                         CtxStateFromKeyBroker([r EXCEPT !.kb = kb2])],
                                      FALSE)
            ELSE /\ ctx' = [ctx EXCEPT ![c] = CtxFail([r EXCEPT !.status = "error"])]
                 /\ UNCHANGED cache_key
      /\ UNCHANGED << cache_collinfo, cache_noblock >>

\* a _marking_to_bson_value whose ciphertext names every value a string
MarkingToBsonValueAsString(kb, m, crypto_ok) ==
  LET k == IF m.name # 0 THEN m.name ELSE m.key
  IN  IF k \notin Keys \/ ~crypto_ok
        THEN [ok |-> FALSE, value |-> m]
      ELSE IF kb[k] # "decrypted"
        THEN [ok |-> FALSE, value |-> m]
      ELSE [ok |-> TRUE,
            value |-> Blob(IF m.alg = "DETERMINISTIC" THEN 1 ELSE 2, k, 2,
                           m.v, 19)]

(* ------------------------------------------------------ encrypt: finalize *)
\* _mongocrypt_marking_to_ciphertext and _mongocrypt_serialize_ciphertext: the
\* ciphertext blob of marking m under the key the broker kb holds for it; ok is
\* FALSE when the broker has no decrypted key for the marking or the crypto
\* collaborator fails.
MarkingToBsonValue(kb, m, crypto_ok) ==
  LET k == IF m.name # 0 THEN m.name ELSE m.key
  IN  IF k \notin Keys \/ ~crypto_ok
        THEN [ok |-> FALSE, value |-> m]
      ELSE IF kb[k] # "decrypted"
        THEN [ok |-> FALSE, value |-> m]
      ELSE [ok |-> TRUE,
            value |-> Blob(IF m.alg = "DETERMINISTIC" THEN 1 ELSE 2, k, m.bt,
                           m.v, 19)]

\* _mongocrypt_transform_binary_in_bson with _replace_marking_with_ciphertext
\* over the values of doc from position i
RECURSIVE ReplaceMarkings(_, _, _, _)
ReplaceMarkings(doc, i, kb, crypto_ok) ==
  IF i > Len(doc)
    THEN [ok |-> TRUE, doc |-> << >>]
  ELSE LET rest == ReplaceMarkings(doc, i + 1, kb, crypto_ok)
           one == IF doc[i].t = "marking"
                    THEN MarkingToBsonValue(kb, doc[i], crypto_ok)
                    ELSE [ok |-> doc[i].t # "badmarking", value |-> doc[i]]
       IN  [ok |-> one.ok /\ rest.ok, doc |-> << one.value >> \o rest.doc]

\* mongocrypt_ctx_finalize in READY on an encrypt context: _finalize.
\* crypto_ok is whether the crypto collaborator succeeds.  An automatic context
\* that stored no marked command reads an uninitialized bson_t: the traversal
\* then either fails or finds nothing (garbage tells which).
EncryptFinalize(c, crypto_ok, garbage) ==
  LET r == ctx[c]
      auto == ReplaceMarkings(r.marked_cmd, 1, r.kb, crypto_ok)
      marking == MarkingOfValue(r.opts.key_id, r.original_cmd[1], r.opts.algorithm)
      expl == MarkingToBsonValue(r.kb, marking, crypto_ok)
      done(out) == Ok([r EXCEPT !.encrypted_cmd = out, !.state = "DONE"])
  IN  /\ Callable(c, "READY")
      /\ IsEncrypt(r)
      /\ ctx' = [ctx EXCEPT ![c] =
                  IF r.kind = "encrypt"
                    THEN IF r.marked_cmd = NoBuf
                           THEN IF garbage THEN CtxFail([r EXCEPT !.status = "error"])
                                ELSE done(<< >>)
                         ELSE IF ~auto.ok
                           THEN CtxFail([r EXCEPT !.status = "error"])
                         ELSE done(auto.doc)
                  ELSE IF Len(r.original_cmd) = 0
                    THEN CtxFailWMsg(r)
                  ELSE IF ~expl.ok
                    THEN [r EXCEPT !.status = "error", !.ret = "false",
                                   !.woke = FALSE, !.waited = FALSE]
                  ELSE done(<< expl.value >>)]
      /\ UNCHANGED << cache_collinfo, cache_key, cache_noblock >>

(* ------------------------------------------------- explicit encryption  *)
\* the options an explicit encryption is tried with
ExplicitOpts ==
  { [DefaultOpts EXCEPT !.key_id = k, !.algorithm = a, !.iv = i] :
      k \in Keys, a \in {"DETERMINISTIC", "RANDOM"}, i \in BOOLEAN }
    \cup { [DefaultOpts EXCEPT !.key_alt_name = k, !.algorithm = "DETERMINISTIC"] :
             k \in Keys }
    \cup { DefaultOpts,
           [DefaultOpts EXCEPT !.key_id = 1],
           [DefaultOpts EXCEPT !.algorithm = "RANDOM"],
           [DefaultOpts EXCEPT !.key_id = 1, !.algorithm = "RANDOM",
                               !.local_schema = 1] }

\* the messages handed to the explicit inits: none, bytes that are no BSON, a
\* document without "v", {"v": value} and {"v": subtype-6 binary}; the
\* binaries are well-formed ciphertexts, one of 18 bytes and one of blob
\* subtype 3
Blobs ==
  { Blob(1, k, BsonTypeOf(v), v, 19) : k \in Keys, v \in Vals }
    \cup { Blob(1, 1, 2, 1, 18), Blob(3, 1, 2, 1, 19) }

ExplicitEncryptMsgs ==
  { NoBuf, NotBson, << >> } \cup { << Plain(v) >> : v \in Vals }

\* mongocrypt_ctx_explicit_encrypt_init (ctx, msg) with options o
ExplicitEncryptInit(c, o, msg) ==
  LET spec == [ZeroSpec EXCEPT !.key_descriptor = "OPT_REQUIRED",
                               !.algorithm = "OPT_REQUIRED",
                               !.iv = "OPT_OPTIONAL"]
      i == CtxInit(ctx[c], o, spec)
      r1 == [i.r EXCEPT !.kind = "explicit_encrypt", !.opts = o,
                        !.vtable = i.r.vtable \cup DerivedCallbacks]
      a == KbAdd(r1.kb, c, cache_key,
                 IF o.key_alt_name # 0 THEN o.key_alt_name ELSE o.key_id)
      r2 == [r1 EXCEPT !.kb = a.kb, !.original_cmd = msg]
  IN  /\ NextToInit(c)
      /\ IF ~i.ok
            THEN /\ ctx' = [ctx EXCEPT ![c] = i.r]
                 /\ UNCHANGED cache_key
          ELSE IF msg = NoBuf
            THEN /\ ctx' = [ctx EXCEPT ![c] = CtxFailWMsg(r1)]
                 /\ UNCHANGED cache_key
          ELSE /\ cache_key' = a.cache
               /\ ctx' = [ctx EXCEPT ![c] =
                            IF msg = NotBson THEN CtxFailWMsg(r2)
                            ELSE IF Len(msg) = 0 THEN CtxFailWMsg(r2)
                            ELSE CtxStateFromKeyBroker(r2)]
      /\ UNCHANGED << cache_collinfo, cache_noblock >>

(* -------------------------------------------------------------- decrypt  *)
\* a _parse_ciphertext_unowned whose minimum is the 18 bytes of the header
ParseCiphertextUnownedHeaderOnly(in) ==
  IF Len(in) < 18
    THEN [ok |-> FALSE, err |-> "malformed ciphertext, too small",
          blob_subtype |-> 0, key_id |-> << >>, original_bson_type |-> 0,
          data |-> << >>]
  ELSE IF in[1] # 1 /\ in[1] # 2
    THEN [ok |-> FALSE,
          err |-> "malformed ciphertext, expected blob subtype of 1 or 2",
          blob_subtype |-> in[1], key_id |-> << >>, original_bson_type |-> 0,
          data |-> << >>]
  ELSE [ok |-> TRUE, err |-> "", blob_subtype |-> in[1],
        key_id |-> SubSeq(in, 2, 17), original_bson_type |-> in[18],
        data |-> SubSeq(in, 19, Len(in))]

\* _parse_ciphertext_unowned on the bytes in of a subtype-6 binary (in[1] is
\* in->data[0]): ok is the result, err the message of the error; key_id,
\* original_bson_type and data are views into the input.
ParseCiphertextUnowned(in) ==
  IF Len(in) < 19
    THEN [ok |-> FALSE, err |-> "malformed ciphertext, too small",
          blob_subtype |-> 0, key_id |-> << >>, original_bson_type |-> 0,
          data |-> << >>]
  ELSE IF in[1] # 1 /\ in[1] # 2
    THEN [ok |-> FALSE,
          err |-> "malformed ciphertext, expected blob subtype of 1 or 2",
          blob_subtype |-> in[1], key_id |-> << >>, original_bson_type |-> 0,
          data |-> << >>]
  ELSE [ok |-> TRUE, err |-> "", blob_subtype |-> in[1],
        key_id |-> SubSeq(in, 2, 17), original_bson_type |-> in[18],
        data |-> SubSeq(in, 19, Len(in))]

\* the key a key_uuid names: the byte the uuid repeats
KeyOfUuid(u) == u[1]

\* the values TRAVERSE_MATCH_CIPHERTEXT selects: subtype-6 binaries whose first
\* byte is 1 or 2
MatchesCiphertext(e) == e.t = "blob" /\ e.len >= 1 /\ e.sub \in {1, 2}

\* _mongocrypt_traverse_binary_in_bson with _collect_key_from_ciphertext over
\* the values of doc from position i
RECURSIVE CollectKeysFromCiphertexts(_, _, _, _, _)
CollectKeysFromCiphertexts(doc, i, kb, id, cache) ==
  IF i > Len(doc)
    THEN [ok |-> TRUE, kb |-> kb, cache |-> cache]
  ELSE IF ~MatchesCiphertext(doc[i])
    THEN CollectKeysFromCiphertexts(doc, i + 1, kb, id, cache)
  ELSE LET p == ParseCiphertextUnowned(BlobBytes(doc[i]))
           a == KbAdd(kb, id, cache, KeyOfUuid(p.key_id))
       IN  IF ~p.ok
             THEN [ok |-> FALSE, kb |-> kb, cache |-> cache]
             ELSE CollectKeysFromCiphertexts(doc, i + 1, a.kb, id, a.cache)

DecryptDocs == { NoBuf } \cup DocsOver({ Plain(v) : v \in Vals } \cup Blobs)

ExplicitDecryptMsgs ==
  { NoBuf, << >> } \cup { << Plain(v) >> : v \in Vals } \cup { << b >> : b \in Blobs }

DecryptOpts == { DefaultOpts, [DefaultOpts EXCEPT !.key_id = 1] }

\* mongocrypt_ctx_decrypt_init (ctx, doc) with options o
DecryptInit(c, o, doc) ==
  LET i == CtxInit(ctx[c], o, ZeroSpec)
      r1 == [i.r EXCEPT !.kind = "decrypt", !.original_doc = doc,
                        !.vtable = i.r.vtable \cup DerivedCallbacks]
      got == CollectKeysFromCiphertexts(doc, 1, r1.kb, c, cache_key)
      r2 == [r1 EXCEPT !.kb = got.kb]
  IN  /\ NextToInit(c)
      /\ IF ~i.ok
            THEN /\ ctx' = [ctx EXCEPT ![c] = i.r]
                 /\ UNCHANGED cache_key
          ELSE IF doc = NoBuf
            THEN /\ ctx' = [ctx EXCEPT ![c] = CtxFailWMsg(i.r)]
                 /\ UNCHANGED cache_key
          ELSE /\ cache_key' = got.cache
               /\ ctx' = [ctx EXCEPT ![c] =
                            IF ~got.ok THEN CtxFail([r2 EXCEPT !.status = "error"])
                            ELSE CtxStateFromKeyBroker(
                                   [r2 EXCEPT !.state = "NOTHING_TO_DO"])]
      /\ UNCHANGED << cache_collinfo, cache_noblock >>

\* mongocrypt_ctx_explicit_decrypt_init (ctx, msg) with options o
ExplicitDecryptInit(c, o, msg) ==
  LET i == CtxInit(ctx[c], o, ZeroSpec)
      r1 == [i.r EXCEPT !.kind = "explicit_decrypt", !.original_doc = msg,
                        !.vtable = i.r.vtable \cup DerivedCallbacks]
      r2 == [r1 EXCEPT !.unwrapped_doc = msg]
      p == ParseCiphertextUnowned(BlobBytes(msg[1]))
      a == KbAdd(r2.kb, c, cache_key, KeyOfUuid(p.key_id))
  IN  /\ NextToInit(c)
      /\ IF ~i.ok
            THEN /\ ctx' = [ctx EXCEPT ![c] = i.r]
                 /\ UNCHANGED cache_key
          ELSE IF msg = NoBuf
            THEN /\ ctx' = [ctx EXCEPT ![c] = CtxFailWMsg(i.r)]
                 /\ UNCHANGED cache_key
          ELSE IF Len(msg) = 0
            THEN /\ ctx' = [ctx EXCEPT ![c] = CtxFailWMsg(r1)]
                 /\ UNCHANGED cache_key
          ELSE IF msg[1].t # "blob"
            THEN /\ ctx' = [ctx EXCEPT ![c] = CtxFailWMsg(r1)]
                 /\ UNCHANGED cache_key
          ELSE IF ~p.ok
            THEN /\ ctx' = [ctx EXCEPT ![c] = CtxFail([r2 EXCEPT !.status = "error"])]
                 /\ UNCHANGED cache_key
          ELSE /\ cache_key' = a.cache
               /\ ctx' = [ctx EXCEPT ![c] = CtxStateFromKeyBroker([r2 EXCEPT !.kb = a.kb])]
      /\ UNCHANGED << cache_collinfo, cache_noblock >>

\* a _replace_ciphertext_with_plaintext for which a key the broker has not
\* decrypted is an error
ReplaceCiphertextWithPlaintextStrict(kb, b, crypto_ok) ==
  LET p == ParseCiphertextUnowned(BlobBytes(b))
  IN  IF ~p.ok
        THEN [ok |-> FALSE, replaced |-> FALSE, value |-> b]
      ELSE IF kb[KeyOfUuid(p.key_id)] # "decrypted"
        THEN [ok |-> FALSE, replaced |-> FALSE, value |-> b]
      ELSE IF ~crypto_ok
        THEN [ok |-> FALSE, replaced |-> FALSE, value |-> b]
      ELSE [ok |-> TRUE, replaced |-> TRUE,
            value |-> Value(p.original_bson_type, p.data[1])]

\* _replace_ciphertext_with_plaintext on blob b with key broker kb: ok is the
\* result; replaced is whether a plaintext value was written to out.  A blob
\* whose key the broker has not decrypted is skipped: success, nothing written.
ReplaceCiphertextWithPlaintext(kb, b, crypto_ok) ==
  LET p == ParseCiphertextUnowned(BlobBytes(b))
  IN  IF ~p.ok
        THEN [ok |-> FALSE, replaced |-> FALSE, value |-> b]
      ELSE IF kb[KeyOfUuid(p.key_id)] # "decrypted"
        THEN [ok |-> TRUE, replaced |-> FALSE, value |-> b]
      ELSE IF ~crypto_ok
        THEN [ok |-> FALSE, replaced |-> FALSE, value |-> b]
      ELSE [ok |-> TRUE, replaced |-> TRUE,
            value |-> Value(p.original_bson_type, p.data[1])]

\* _mongocrypt_transform_binary_in_bson with _replace_ciphertext_with_plaintext
\* over the values of doc from position i
RECURSIVE ReplaceCiphertexts(_, _, _, _)
ReplaceCiphertexts(doc, i, kb, crypto_ok) ==
  IF i > Len(doc)
    THEN [ok |-> TRUE, doc |-> << >>]
  ELSE LET rest == ReplaceCiphertexts(doc, i + 1, kb, crypto_ok)
           one == IF MatchesCiphertext(doc[i])
                    THEN ReplaceCiphertextWithPlaintext(kb, doc[i], crypto_ok)
                    ELSE [ok |-> TRUE, replaced |-> FALSE, value |-> doc[i]]
       IN  [ok |-> one.ok /\ rest.ok, doc |-> << one.value >> \o rest.doc]

\* what an uninitialized bson_value_t may hold when it is appended
Garbage == { Plain(v) : v \in Vals }

\* mongocrypt_ctx_finalize in READY on a decrypt context: _finalize.  In the
\* explicit branch a skipped ciphertext leaves value unwritten and the
\* uninitialized value g is appended.
DecryptFinalize(c, crypto_ok, g) ==
  LET r == ctx[c]
      auto == ReplaceCiphertexts(r.original_doc, 1, r.kb, crypto_ok)
      expl == ReplaceCiphertextWithPlaintext(r.kb, r.unwrapped_doc[1], crypto_ok)
      done(out) == Ok([r EXCEPT !.decrypted_doc = out, !.state = "DONE"])
  IN  /\ Callable(c, "READY")
      /\ IsDecrypt(r)
      /\ ctx' = [ctx EXCEPT ![c] =
                  IF r.kind = "decrypt"
                    THEN IF ~auto.ok THEN CtxFail([r EXCEPT !.status = "error"])
                         ELSE done(auto.doc)
                  ELSE IF ~expl.ok THEN CtxFail([r EXCEPT !.status = "error"])
                  ELSE IF expl.replaced THEN done(<< expl.value >>)
                  ELSE done(<< g >>)]
      /\ UNCHANGED << cache_collinfo, cache_key, cache_noblock >>

\* The automatic encryptions of NumCtx contexts over NumNs namespaces up to the
\* end of their collinfo step.
NextCollinfo ==
  \E c \in Ctx :
    \/ \E o \in AutoOpts, ns \in 0..NumNs : EncryptInit(c, o, ns)
    \/ MongoOpCollinfo(c)
    \/ \E in \in CollinfoReplies, ok \in BOOLEAN : MongoFeedCollinfo(c, in, ok)
    \/ MongoDoneCollinfo(c)
    \/ \E ok \in BOOLEAN : WaitDone(c, ok)
    \/ WaitDoneWoken(c)
    \/ NextDependentCtxId(c)
    \/ Cleanup(c)
    \/ Rejected(c)

SpecCollinfo == Init /\ [][NextCollinfo]_vars

\* Every kind of context and every operation, on the contexts 1..NumFull; the
\* automatic encryptions are all of one namespace (or of none).
Next ==
  \E c \in 1..NumFull :
    \/ \E o \in AutoOpts, ns \in {0, 1} : EncryptInit(c, o, ns)
    \/ \E o \in ExplicitOpts, msg \in ExplicitEncryptMsgs :
         ExplicitEncryptInit(c, o, msg)
    \/ \E o \in DecryptOpts, doc \in DecryptDocs : DecryptInit(c, o, doc)
    \/ \E o \in DecryptOpts, msg \in ExplicitDecryptMsgs :
         ExplicitDecryptInit(c, o, msg)
    \/ MongoOpCollinfo(c)
    \/ \E in \in CollinfoReplies, ok \in BOOLEAN : MongoFeedCollinfo(c, in, ok)
    \/ MongoDoneCollinfo(c)
    \/ MongoOpMarkings(c)
    \/ \E in \in MarkingReplies : MongoFeedMarkings(c, in)
    \/ MongoDoneMarkings(c)
    \/ MongoOpKeys(c)
    \/ \E k \in Keys : MongoFeedKeys(c, k)
    \/ MongoDoneKeys(c)
    \/ \E ok \in BOOLEAN : KmsDone(c, ok)
    \/ \E ok \in BOOLEAN : WaitDone(c, ok)
    \/ WaitDoneWoken(c)
    \/ NextDependentCtxId(c)
    \/ \E ok \in BOOLEAN, garbage \in BOOLEAN : EncryptFinalize(c, ok, garbage)
    \/ \E ok \in BOOLEAN, g \in Garbage : DecryptFinalize(c, ok, g)
    \/ Cleanup(c)
    \/ Rejected(c)

Spec == Init /\ [][Next]_vars

(* ------------------------------------------- finalize of a decryption *)
\* The key broker of a decryption in READY may hold the decrypted material of
\* only some of the keys its document names.  The documents: values and
\* ciphertexts of the keys DocKeys, of both blob subtypes, and a subtype-6
\* binary that is no ciphertext.
DocKeys == 1..NumDocKeys

Ciphertexts ==
  { Blob(sub, k, BsonTypeOf(v), v, 19) : sub \in {1, 2}, k \in DocKeys, v \in Vals }

FinalizeDocs ==
  UNION { [1..n -> {Plain(v) : v \in Vals} \cup Ciphertexts \cup {Blob(3, 1, 2, 1, 19)}]
            : n \in 1..MaxDocLen }

\* a decryption of document doc in READY whose broker is kb
ReadyToDecrypt(kind, doc, kb) ==
  [NewCtx EXCEPT !.phase = "live", !.state = "READY", !.kind = kind,
                 !.kb = kb, !.original_doc = doc,
                 !.unwrapped_doc = IF kind = "explicit_decrypt" THEN doc ELSE NoBuf,
                 !.vtable = KeyCallbacks \cup DerivedCallbacks,
                 !.ret = "true"]

InitDecryptFinalize ==
  /\ cache_collinfo = [n \in Ns |-> NoPair(NoCollinfo)]
  /\ cache_key = [k \in Keys |-> NoPair(0)]
  /\ cache_noblock \in BOOLEAN
  /\ \E kb \in [DocKeys -> {"none", "decrypted"}],
        kind \in {"decrypt", "explicit_decrypt"} :
       \E doc \in IF kind = "decrypt" THEN FinalizeDocs
                   ELSE { << b >> : b \in Ciphertexts } :
         ctx = [c \in Ctx |-> IF c = 1 THEN ReadyToDecrypt(kind, doc, kb)
                                       ELSE NewCtx]

NextDecryptFinalize ==
  \E c \in Ctx :
    \/ \E ok \in BOOLEAN, g \in Garbage : DecryptFinalize(c, ok, g)
    \/ Cleanup(c)
    \/ Rejected(c)

SpecDecryptFinalize == InitDecryptFinalize /\ [][NextDecryptFinalize]_vars

(* ------------------------------------------- the ciphertext parser *)
\* The subtype-6 binaries of every length up to MaxBlobLen and of every first
\* byte up to MaxSubtype, handed to explicit decrypt init as {"v": binary}:
\* the init parses the binary for its key id.
ParseInputs ==
  { Blob(sub, k, bt, v, len) :
      sub \in 0..MaxSubtype, k \in Keys, bt \in {2, 16}, v \in Vals,
      len \in 0..MaxBlobLen }

NextParse ==
  \E c \in 1..NumFull :
    \/ \E b \in ParseInputs : ExplicitDecryptInit(c, DefaultOpts, << b >>)
    \/ Cleanup(c)
    \/ Rejected(c)

SpecParse == Init /\ [][NextParse]_vars

(* --------------------------- explicit encryption, then explicit decryption *)
\* The messages {"v": x} for the values x of both types, encrypted explicitly
\* under every set of options; the output of an explicit encryption that is
\* DONE is the message of an explicit decryption.
RoundTripMsgs == { << Value(bt, v) >> : bt \in {2, 16}, v \in Vals }

\* mongocrypt_ctx_explicit_decrypt_init on the output of the explicit
\* encryption a, which is DONE
DecryptOutputOf(c, a) ==
  /\ Live(a)
  /\ ctx[a].kind = "explicit_encrypt"
  /\ ctx[a].state = "DONE"
  /\ ExplicitDecryptInit(c, DefaultOpts, ctx[a].encrypted_cmd)

NextRoundTrip ==
  \E c \in 1..NumFull :
    \/ \E o \in ExplicitOpts, msg \in RoundTripMsgs :
         ExplicitEncryptInit(c, o, msg)
    \/ \E a \in 1..NumFull : DecryptOutputOf(c, a)
    \/ MongoOpKeys(c)
    \/ \E k \in Keys : MongoFeedKeys(c, k)
    \/ MongoDoneKeys(c)
    \/ \E ok \in BOOLEAN : KmsDone(c, ok)
    \/ \E ok \in BOOLEAN, garbage \in BOOLEAN : EncryptFinalize(c, ok, garbage)
    \/ \E ok \in BOOLEAN, g \in Garbage : DecryptFinalize(c, ok, g)
    \/ Cleanup(c)
    \/ Rejected(c)

SpecRoundTrip == Init /\ [][NextRoundTrip]_vars

(* ------------------------------------------------- the marking step alone *)
\* Automatic encryptions with a local schema, which start in
\* NEED_MONGO_MARKINGS, up to the end of their marking step.
NextMarkings ==
  \E c \in 1..NumFull :
    \/ \E sch \in Schemas :
         EncryptInit(c, [DefaultOpts EXCEPT !.local_schema = sch], 1)
    \/ MongoOpMarkings(c)
    \/ \E in \in MarkingReplies : MongoFeedMarkings(c, in)
    \/ MongoDoneMarkings(c)
    \/ Cleanup(c)
    \/ Rejected(c)

SpecMarkings == Init /\ [][NextMarkings]_vars

\* The collinfo owner and its dependents under the scheduling the caller
\* promises: a dependent keeps calling wait_done, and a call that was woken
\* from its sleep on the cache runs on.  Nothing makes the caller feed a
\* reply, finish a step or destroy a context.
NextWaiters ==
  \E c \in 1..NumFull :
    \/ \E o \in AutoOpts, ns \in 0..NumNs : EncryptInit(c, o, ns)
    \/ MongoOpCollinfo(c)
    \/ \E in \in CollinfoReplies, ok \in BOOLEAN : MongoFeedCollinfo(c, in, ok)
    \/ MongoDoneCollinfo(c)
    \/ \E ok \in BOOLEAN : WaitDone(c, ok)
    \/ WaitDoneWoken(c)
    \/ NextDependentCtxId(c)
    \/ Cleanup(c)
    \/ Rejected(c)

SpecWaitersFair ==
  /\ Init
  /\ [][NextWaiters]_vars
  /\ \A c \in 1..NumFull : /\ WF_vars(WaitDone(c, TRUE))
                            /\ WF_vars(WaitDoneWoken(c))

(* ------------------------------------------------------------ properties *)
\* a step that takes the live context c from one state of the order to an
\* earlier one
BackwardStep(c) ==
  /\ Live(c)
  /\ ctx'[c].phase = "live"
  /\ ctx[c].state \in Ordered
  /\ ctx'[c].state \in Ordered
  /\ Rank(ctx'[c].state) < Rank(ctx[c].state)

\* C1 as stated: no operation moves a context to an earlier state of the order
\* NEED_MONGO_COLLINFO < NEED_MONGO_MARKINGS < NEED_MONGO_KEYS < NEED_KMS <
\* WAITING < READY < DONE; in particular wait_done on a WAITING context yields
\* neither NEED_MONGO_COLLINFO nor NEED_MONGO_MARKINGS.
C1_NoBackwardMove == [][\A c \in Ctx : ~BackwardStep(c)]_vars

\* C1: the only operation that moves a context to an earlier state of the order
\* is a wait_done on a context in WAITING; when the context waits for a
\* collinfo the state it yields is NEED_MONGO_COLLINFO or NEED_MONGO_MARKINGS.
C1_BackwardOnlyFromWaiting ==
  [][\A c \in Ctx :
       BackwardStep(c) =>
         /\ ctx[c].state = "WAITING"
         /\ ctx'[c].woke
         /\ ctx[c].waiting_for_collinfo =>
              ctx'[c].state \in {"NEED_MONGO_COLLINFO", "NEED_MONGO_MARKINGS"}]_vars

\* a wait_done has taken a context from WAITING back to NEED_MONGO_COLLINFO
C1_WokenIntoCollinfo ==
  \E c \in Ctx :
    /\ Live(c)
    /\ ctx[c].woke
    /\ ctx[c].state = "NEED_MONGO_COLLINFO"

\* C2: once a context is in ERROR or DONE every later call on it is rejected:
\* a step changes nothing of the context but the result of the call, and then
\* leaves both caches as they are, unless the step destroys the context.
C2_TerminalIsFinal ==
  [][\A c \in Ctx :
       (Live(c) /\ Terminal(c)) =>
         \/ ctx'[c] = ctx[c]
         \/ /\ ctx'[c] = [ctx[c] EXCEPT !.ret = "rejected"]
            /\ UNCHANGED << cache_collinfo, cache_key >>
         \/ ctx'[c] = Destroyed]_vars

\* a call has been rejected on a context in ERROR that still owns the pending
\* pair of its namespace
C2_RejectedInError ==
  \E c \in Ctx :
    /\ Live(c)
    /\ ctx[c].state = "ERROR"
    /\ ctx[c].ret = "rejected"
    /\ ctx[c].ns # 0
    /\ cache_collinfo[ctx[c].ns].state = "pending"
    /\ cache_collinfo[ctx[c].ns].owner = c

\* C3 as stated: whenever the last operation on a context returned failure the
\* context's status holds an error and its state is ERROR.
C3_FailureIsError ==
  \A c \in Ctx :
    (Live(c) /\ ctx[c].ret = "false") =>
      (ctx[c].status = "error" /\ ctx[c].state = "ERROR")

\* C4: a pending collinfo pair names one owner, a live automatic encryption of
\* that namespace; a done pair has no owner; at most one context of a namespace
\* is in NEED_MONGO_COLLINFO, and while the pair is pending that context is its
\* owner.
C4_SingleOwner ==
  \A n \in Ns :
    LET e == cache_collinfo[n]
        fetching == { c \in Ctx : /\ Live(c)
                                  /\ ctx[c].state = "NEED_MONGO_COLLINFO"
                                  /\ ctx[c].ns = n }
    IN  /\ e.state = "pending" =>
              /\ e.owner \in Ctx
              /\ Live(e.owner)
              /\ ctx[e.owner].kind = "encrypt"
              /\ ctx[e.owner].ns = n
        /\ e.state = "done" => e.owner = 0
        /\ Cardinality(fetching) <= 1
        /\ \A c \in fetching : e.state = "done" \/
                                 (e.state = "pending" /\ e.owner = c)

\* an owner in NEED_MONGO_COLLINFO with two contexts waiting for its pair
C4_OwnerAndWaiters ==
  \E a \in Ctx :
    /\ Live(a)
    /\ ctx[a].state = "NEED_MONGO_COLLINFO"
    /\ cache_collinfo[ctx[a].ns].state = "pending"
    /\ cache_collinfo[ctx[a].ns].owner = a
    /\ \A b \in Ctx \ {a} :
         /\ Live(b)
         /\ ctx[b].state = "WAITING"
         /\ ctx[b].ns = ctx[a].ns

\* the context c waits for the collinfo of its namespace
WaitsForCollinfo(c) ==
  /\ Live(c)
  /\ ctx[c].kind = "encrypt"
  /\ ctx[c].state = "WAITING"
  /\ ctx[c].waiting_for_collinfo

\* C5: a context waiting for a collinfo leaves WAITING for a state other than
\* ERROR only in a step before which the pair of its namespace is done (the
\* owner has published it) or absent (the owner's cleanup has removed it).
C5_WaitsForOwner ==
  [][\A c \in Ctx :
       (/\ WaitsForCollinfo(c)
        /\ ctx'[c].phase = "live"
        /\ ctx'[c].state \notin {"WAITING", "ERROR"})
         => cache_collinfo[ctx[c].ns].state \in {"done", "absent"}]_vars

\* a waiting context has left WAITING by a wait_done after a context of its
\* namespace fed a reply and so published the pair
C5_LeftAfterPublish ==
  \E c \in Ctx, d \in Ctx :
    /\ c # d
    /\ Live(c)
    /\ ctx[c].woke
    /\ ctx[c].state = "NEED_MONGO_MARKINGS"
    /\ Live(d)
    /\ ctx[d].ns = ctx[c].ns
    /\ ctx[d].fed = 1
    /\ cache_collinfo[ctx[c].ns].state = "done"

\* C6: a context enters NEED_MONGO_COLLINFO only in a step before which its
\* namespace has no pair, and it then owns the pending pair while no other
\* context of the namespace is in NEED_MONGO_COLLINFO; a context that waits for
\* a collinfo and whose wait_done finds the pair done goes to
\* NEED_MONGO_MARKINGS without touching the cache and holds the schema of the
\* context that fed the one reply.
C6_OneQueryOneSchema ==
  [][\A c \in Ctx :
       /\ (/\ ctx'[c].phase = "live"
           /\ ctx'[c].state = "NEED_MONGO_COLLINFO"
           /\ ctx[c].state # "NEED_MONGO_COLLINFO")
            => /\ cache_collinfo[ctx'[c].ns].state = "absent"
               /\ cache_collinfo'[ctx'[c].ns].state = "pending"
               /\ cache_collinfo'[ctx'[c].ns].owner = c
               /\ \A d \in Ctx \ {c} :
                    ~(/\ ctx'[d].phase = "live"
                      /\ ctx'[d].ns = ctx'[c].ns
                      /\ ctx'[d].state = "NEED_MONGO_COLLINFO")
       /\ (/\ WaitsForCollinfo(c)
           /\ cache_collinfo[ctx[c].ns].state = "done"
           /\ ctx'[c].phase = "live"
           /\ ctx'[c].state \notin {"WAITING", "ERROR"})
            => /\ ctx'[c].state = "NEED_MONGO_MARKINGS"
               /\ cache_collinfo' = cache_collinfo
               /\ \A d \in Ctx \ {c} :
                    (/\ Live(d)
                     /\ ctx[d].ns = ctx[c].ns
                     /\ ctx[d].fed = 1
                     /\ ctx[d].state # "ERROR")
                      => ctx'[c].schema = ctx[d].schema]_vars

\* the owner has fed a reply with a schema and is still in
\* NEED_MONGO_COLLINFO; the waiter has been through wait_done and holds that
\* schema
C6_Inherited ==
  \E a \in Ctx, b \in Ctx :
    /\ a # b
    /\ Live(a)
    /\ ctx[a].state = "NEED_MONGO_COLLINFO"
    /\ ctx[a].fed = 1
    /\ ctx[a].schema # 0
    /\ Live(b)
    /\ ctx[b].ns = ctx[a].ns
    /\ ctx[b].woke
    /\ ctx[b].state = "NEED_MONGO_MARKINGS"
    /\ ctx[b].schema = ctx[a].schema

\* C7: when a context that waits for a collinfo completes a wait_done, it has
\* run the lookup again: if the pair had been removed (the owner was cleaned up
\* before publishing) the context becomes the new owner, in
\* NEED_MONGO_COLLINFO, and no other context of the namespace is there; if the
\* pair is pending the context stays in WAITING and names the pair's owner,
\* which is another context.
C7_OwnerReelected ==
  [][\A c \in Ctx :
       (/\ WaitsForCollinfo(c)
        /\ WaitDone(c, TRUE) \/ WaitDoneWoken(c)
        /\ ctx'[c].pc = "idle")
         => LET n == ctx[c].ns
                e == cache_collinfo[n]
            IN  /\ e.state = "absent" =>
                     /\ ctx'[c].state = "NEED_MONGO_COLLINFO"
                     /\ cache_collinfo'[n].state = "pending"
                     /\ cache_collinfo'[n].owner = c
                     /\ \A d \in Ctx \ {c} :
                          ~(/\ Live(d)
                            /\ ctx[d].ns = n
                            /\ ctx[d].state = "NEED_MONGO_COLLINFO")
                /\ e.state = "pending" =>
                     /\ e.owner # c
                     /\ ctx'[c].state = "WAITING"
                     /\ ctx'[c].waiting_for_collinfo
                     /\ ctx'[c].collinfo_owner = e.owner
                     /\ cache_collinfo' = cache_collinfo]_vars

\* the first owner has been destroyed; of its two dependents the third
\* context has become the owner by its wait_done and the second one has been
\* through wait_done since and names the third
C7_SecondOwner ==
  /\ ctx[1].phase = "destroyed"
  /\ Live(3)
  /\ ctx[3].woke
  /\ ctx[3].state = "NEED_MONGO_COLLINFO"
  /\ cache_collinfo[ctx[3].ns].state = "pending"
  /\ cache_collinfo[ctx[3].ns].owner = 3
  /\ WaitsForCollinfo(2)
  /\ ctx[2].ns = ctx[3].ns
  /\ ctx[2].collinfo_owner = 3

\* C8: the step that destroys a context removes from the collinfo cache the
\* pairs that are pending and owned by the context and leaves every other
\* pair, done or pending, as it is; afterwards no pending pair names the
\* context.
C8_CleanupRemovesOwnPending ==
  [][\A c \in Ctx :
       (Live(c) /\ ctx'[c].phase = "destroyed") =>
         \A n \in Ns :
           /\ IF cache_collinfo[n].state = "pending" /\ cache_collinfo[n].owner = c
                THEN cache_collinfo'[n].state = "absent"
                ELSE cache_collinfo'[n] = cache_collinfo[n]
           /\ ~(cache_collinfo'[n].state = "pending" /\
                cache_collinfo'[n].owner = c)]_vars

\* a context that had published its namespace's pair has been destroyed and
\* the pair is still done, while the pair of the other namespace is pending
\* and owned by a live context
C8_DoneOutlivesOwner ==
  \E c \in Ctx, n \in Ns, m \in Ns :
    /\ ctx[c].phase = "destroyed"
    /\ cache_collinfo[n].state = "done"
    /\ \A d \in Ctx : Live(d) => ctx[d].ns # n
    /\ cache_collinfo[m].state = "pending"
    /\ cache_collinfo[m].owner # c

\* C9: an automatic encryption initialized without a local schema on the
\* namespace of a context that is in NEED_MONGO_COLLINFO and has fed no reply
\* is in WAITING after init and names that context as the owner; the first
\* next_dependent_ctx_id after a lookup returns the owner the lookup named.
C9_SecondWaitsOnFirst ==
  [][\A a \in Ctx, b \in Ctx :
       /\ (/\ a # b
           /\ Live(a)
           /\ ctx[a].state = "NEED_MONGO_COLLINFO"
           /\ ctx[a].fed = 0
           /\ EncryptInit(b, DefaultOpts, ctx[a].ns))
            => /\ ctx'[b].state = "WAITING"
               /\ ctx'[b].waiting_for_collinfo
               /\ ctx'[b].collinfo_owner = a
       /\ (/\ WaitsForCollinfo(b)
           /\ ctx[b].dep_ret = -1
           /\ ctx[b].collinfo_owner = a
           /\ ctx'[b].dep_ret # -1)
            => ctx'[b].dep_ret = a]_vars

\* the first context is in NEED_MONGO_COLLINFO and has fed nothing; the second
\* waits and its next_dependent_ctx_id has returned the first's id
C9_DependsOnFirst ==
  /\ Live(1)
  /\ ctx[1].state = "NEED_MONGO_COLLINFO"
  /\ ctx[1].fed = 0
  /\ WaitsForCollinfo(2)
  /\ ctx[2].ns = ctx[1].ns
  /\ ctx[2].dep_ret = 1

\* C10 as stated: an automatic encryption whose schema is empty is never in
\* NEED_MONGO_MARKINGS, whichever way it came by the collinfo.
C10_EmptySchemaNeverMarkings ==
  \A c \in Ctx :
    (Live(c) /\ ctx[c].kind = "encrypt" /\ ctx[c].state = "NEED_MONGO_MARKINGS")
      => ctx[c].schema # 0

\* C11 as stated: finalize on an automatic encryption that is in READY without
\* a marked command (its marking reply said schemaRequiresEncryption:false, or
\* hasEncryptedPlaceholders:false) ends in DONE and hands out the original
\* command.
C11_NoOpReturnsOriginal ==
  [][\A c \in Ctx :
       (/\ Live(c)
        /\ ctx[c].kind = "encrypt"
        /\ ctx[c].marked_cmd = NoBuf
        /\ \E ok \in BOOLEAN, g \in BOOLEAN : EncryptFinalize(c, ok, g))
         => /\ ctx'[c].state = "DONE"
            /\ ctx'[c].encrypted_cmd = ctx[c].original_cmd]_vars

C13_ExplicitMissingKeyFails ==
  [][\A c \in Ctx :
       (/\ Live(c)
        /\ ctx[c].kind = "explicit_decrypt"
        /\ ctx[c].kb[ctx[c].unwrapped_doc[1].key] # "decrypted"
        /\ \E ok \in BOOLEAN, g \in Garbage : DecryptFinalize(c, ok, g))
         => /\ ctx'[c].state = "ERROR"
            /\ ctx'[c].status = "error"
            /\ ctx'[c].ret = "false"
            /\ ctx'[c].decrypted_doc = NoBuf]_vars

\* the collinfo document of a view
IsView(collinfo) == collinfo.shape = "doc" /\ collinfo.view

\* C14: an automatic encryption that obtains the collinfo of a view is in
\* ERROR with an error status afterwards, whether the document is fed as the
\* listCollections reply (and the cache takes it) or read from the done pair
\* of the namespace by init or by a completed wait_done; and a context in
\* ERROR stays there, so it never reaches NEED_MONGO_MARKINGS.
C14_ViewIsError ==
  [][\A c \in Ctx :
       LET failed == /\ ctx'[c].state = "ERROR"
                     /\ ctx'[c].status = "error"
                     /\ ctx'[c].ret = "false"
       IN  /\ (\E in \in CollinfoReplies :
                 IsView(in) /\ MongoFeedCollinfo(c, in, TRUE)) => failed
           /\ \A n \in Ns :
                (/\ cache_collinfo[n].state = "done"
                 /\ IsView(cache_collinfo[n].value))
                  => /\ EncryptInit(c, DefaultOpts, n) => failed
                     /\ (/\ WaitsForCollinfo(c)
                         /\ ctx[c].ns = n
                         /\ WaitDone(c, TRUE) \/ WaitDoneWoken(c)
                         /\ ctx'[c].pc = "idle") => failed
           /\ (/\ Live(c)
               /\ ctx[c].kind = "encrypt"
               /\ ctx[c].state = "ERROR"
               /\ ctx'[c].phase = "live") => ctx'[c].state = "ERROR"]_vars

\* the owner fed the collinfo of a view and is in ERROR; a second context of
\* the namespace, which fed nothing, has read the view from the done pair and
\* is in ERROR as well
C14_ViewFromCache ==
  \E a \in Ctx, b \in Ctx :
    /\ a # b
    /\ Live(a)
    /\ ctx[a].fed = 1
    /\ ctx[a].state = "ERROR"
    /\ cache_collinfo[ctx[a].ns].state = "done"
    /\ IsView(cache_collinfo[ctx[a].ns].value)
    /\ Live(b)
    /\ ctx[b].kind = "encrypt"
    /\ ctx[b].ns = ctx[a].ns
    /\ ctx[b].fed = 0
    /\ ctx[b].state = "ERROR"
    /\ ctx[b].status = "error"

\* C15: the parser accepts the bytes of a subtype-6 binary exactly when there
\* are at least 19 of them and the first is 1 or 2; it then yields as key_uuid
\* the 16 bytes after the first, as original_bson_type the byte after those
\* and as payload the remaining bytes, at least one; an input of 18 bytes and
\* one of 19 bytes whose first byte is 3 are rejected, and an input of fewer
\* than 19 bytes is rejected as "too small" whatever its first byte.  An
\* explicit decrypt init handed a rejected binary leaves the context in ERROR,
\* and one handed an accepted binary does not.
C15_ParserAccepts ==
  \A c \in Ctx :
    (/\ Live(c)
     /\ ctx[c].kind = "explicit_decrypt"
     /\ ctx[c].unwrapped_doc # NoBuf)
      => LET in == BlobBytes(ctx[c].unwrapped_doc[1])
             n == Len(in)
             p == ParseCiphertextUnowned(in)
         IN  /\ p.ok <=> (n >= 19 /\ in[1] \in {1, 2})
             /\ p.ok => /\ Len(p.key_id) = 16
                        /\ \A i \in 1..16 : p.key_id[i] = in[i + 1]
                        /\ p.original_bson_type = in[18]
                        /\ Len(p.data) = n - 18
                        /\ Len(p.data) >= 1
                        /\ \A i \in 1..(n - 18) : p.data[i] = in[18 + i]
             /\ n = 18 => ~p.ok
             /\ (n = 19 /\ in[1] = 3) => ~p.ok
             /\ n < 19 => p.err = "malformed ciphertext, too small"
             /\ ~p.ok => ctx[c].state = "ERROR" /\ ctx[c].status = "error"
             /\ p.ok => ctx[c].state # "ERROR" /\ ctx[c].kb[in[2]] # "none"

\* one explicit decryption was handed a binary of 19 bytes with first byte 2
\* and asks for its key; another was handed 18 bytes with first byte 1 and is
\* in ERROR
C15_NineteenAndEighteen ==
  \E a \in Ctx, b \in Ctx :
    /\ Live(a)
    /\ ctx[a].kind = "explicit_decrypt"
    /\ ctx[a].unwrapped_doc[1].len = 19
    /\ ctx[a].unwrapped_doc[1].sub = 2
    /\ ctx[a].state = "NEED_MONGO_KEYS"
    /\ Live(b)
    /\ ctx[b].kind = "explicit_decrypt"
    /\ ctx[b].unwrapped_doc[1].len = 18
    /\ ctx[b].unwrapped_doc[1].sub = 1
    /\ ctx[b].state = "ERROR"

C17_FailedInitLeavesCache ==
  [][\A c \in Ctx, o \in AutoOpts, ns \in 0..NumNs :
       (/\ \/ ns = 0
           \/ o.key_id # 0
           \/ o.iv
           \/ o.algorithm # "NONE"
           \/ o.masterkey_aws
        /\ EncryptInit(c, o, ns))
         => /\ ctx'[c].state = "ERROR"
            /\ ctx'[c].status = "error"
            /\ ctx'[c].ret = "false"
            /\ cache_collinfo' = cache_collinfo
            /\ \A n \in Ns : ~(/\ cache_collinfo'[n].state = "pending"
                               /\ cache_collinfo'[n].owner = c)]_vars

\* one init has failed for its namespace and another for its options, while a
\* third context owns the pending pair of a namespace that has no other pair
C17_TwoFailedOneOwner ==
  \E a \in Ctx, b \in Ctx, d \in Ctx :
    /\ Live(a)
    /\ ctx[a].kind = "encrypt"
    /\ ctx[a].ns = 0
    /\ ctx[a].state = "ERROR"
    /\ Live(b)
    /\ ctx[b].kind = "none"
    /\ ctx[b].state = "ERROR"
    /\ Live(d)
    /\ ctx[d].state = "NEED_MONGO_COLLINFO"
    /\ \A n \in Ns :
         cache_collinfo[n].state = IF n = ctx[d].ns THEN "pending" ELSE "absent"
    /\ cache_collinfo[ctx[d].ns].owner = d

\* C18: a context is in a state only if the callbacks of that state are set
\* in its function table: the collinfo and marking callbacks are set by the
\* automatic encrypt init alone, so an explicit encryption, an automatic
\* decryption and an explicit decryption have none of them and are never in
\* NEED_MONGO_COLLINFO or NEED_MONGO_MARKINGS; a context in NEED_MONGO_KEYS or
\* NEED_KMS has the key and KMS callbacks, one in WAITING wait_done and
\* next_dependent_ctx_id, one in READY finalize.
C18_StateHasCallbacks ==
  \A c \in Ctx :
    Live(c) =>
      LET r == ctx[c]
      IN  /\ r.state = "NEED_MONGO_COLLINFO" => CollinfoCallbacks \subseteq r.vtable
          /\ r.state = "NEED_MONGO_MARKINGS" => MarkingsCallbacks \subseteq r.vtable
          /\ r.state = "NEED_MONGO_KEYS" =>
               {"mongo_op_keys", "mongo_feed_keys", "mongo_done_keys"}
                 \subseteq r.vtable
          /\ r.state = "NEED_KMS" => {"next_kms_ctx", "kms_done"} \subseteq r.vtable
          /\ r.state = "WAITING" =>
               {"wait_done", "next_dependent_ctx_id"} \subseteq r.vtable
          /\ r.state = "READY" => "finalize" \in r.vtable
          /\ r.kind \in {"explicit_encrypt", "decrypt", "explicit_decrypt"} =>
               /\ r.state \notin {"NEED_MONGO_COLLINFO", "NEED_MONGO_MARKINGS"}
               /\ r.vtable \cap (CollinfoCallbacks \cup MarkingsCallbacks) = {}

\* an automatic decryption waits for the KMS while an automatic encryption
\* waits for the markings
C18_DecryptInKms ==
  \E a \in Ctx, b \in Ctx :
    /\ Live(a)
    /\ ctx[a].kind = "decrypt"
    /\ ctx[a].state = "NEED_KMS"
    /\ Live(b)
    /\ ctx[b].kind = "encrypt"
    /\ ctx[b].state = "NEED_MONGO_MARKINGS"

\* the dependency of the waiting context c, the collinfo pair of its namespace
\* or a key of its broker, is pending under another owner
PendingElsewhere(c) ==
  LET r == ctx[c]
  IN  /\ Live(c)
      /\ r.state = "WAITING"
      /\ IF IsEncrypt(r) /\ r.waiting_for_collinfo
           THEN /\ cache_collinfo[r.ns].state = "pending"
                /\ cache_collinfo[r.ns].owner # c
           ELSE \E k \in Keys : /\ r.kb[k] = "waiting"
                                /\ cache_key[k].state = "pending"
                                /\ cache_key[k].owner # c

\* C19: a wait_done whose collaborators succeed, on a context whose dependency
\* is pending under another owner: with cache_noblock the call returns at once,
\* the context is in WAITING as before, has no error and both caches are as
\* they were; without cache_noblock the call sleeps and nothing of the context
\* changes, and a sleeping call goes on only in a step that changes the cache
\* it sleeps on.
C19_NoblockStaysWaiting ==
  [][\A c \in Ctx :
       /\ (PendingElsewhere(c) /\ WaitDone(c, TRUE)) =>
            IF ctx[c].cache_noblock
              THEN /\ ctx'[c].pc = "idle"
                   /\ ctx'[c].state = "WAITING"
                   /\ ctx'[c].status = ctx[c].status
                   /\ ctx'[c].status = "ok"
                   /\ ctx'[c].ret = "true"
                   /\ ctx'[c].waited
                   /\ UNCHANGED << cache_collinfo, cache_key >>
              ELSE /\ ctx'[c] = [ctx[c] EXCEPT !.pc = "sleeping"]
                   /\ UNCHANGED << cache_collinfo, cache_key >>
       /\ (ctx[c].pc = "sleeping" /\ ctx'[c].pc # "sleeping") =>
            IF IsEncrypt(ctx[c]) /\ ctx[c].waiting_for_collinfo
              THEN cache_collinfo' # cache_collinfo
              ELSE cache_key' # cache_key]_vars

\* a context with cache_noblock has been through wait_done, which returned
\* success, and is in WAITING with its dependency pending under another context
C19_BusyAndAsleep ==
  \E c \in Ctx :
    /\ PendingElsewhere(c)
    /\ ctx[c].cache_noblock
    /\ ctx[c].waited
    /\ ctx[c].pc = "idle"
    /\ ctx[c].ret = "true"

\* C20: an automatic encrypt init without a local schema that succeeds leaves
\* the context in the state the pair of its namespace decides: there was no
\* pair, the context now owns the pending pair and is in NEED_MONGO_COLLINFO;
\* the pair was pending under another context, the context is in WAITING with
\* waiting_for_collinfo set and the cache is as it was; the pair was done, the
\* context holds the schema of the cached collinfo and is in
\* NEED_MONGO_MARKINGS, the cache as it was.
C20_InitFollowsCache ==
  [][\A c \in Ctx, n \in Ns :
       (EncryptInit(c, DefaultOpts, n) /\ ctx'[c].ret = "true")
         => LET e == cache_collinfo[n]
            IN  /\ e.state = "absent" =>
                     /\ ctx'[c].state = "NEED_MONGO_COLLINFO"
                     /\ ~ctx'[c].waiting_for_collinfo
                     /\ cache_collinfo' =
                          [cache_collinfo EXCEPT ![n].state = "pending",
                                                 ![n].owner = c]
                /\ e.state = "pending" =>
                     /\ e.owner # c
                     /\ ctx'[c].state = "WAITING"
                     /\ ctx'[c].waiting_for_collinfo
                     /\ cache_collinfo' = cache_collinfo
                /\ e.state = "done" =>
                     /\ ctx'[c].state = "NEED_MONGO_MARKINGS"
                     /\ ~ctx'[c].waiting_for_collinfo
                     /\ ctx'[c].schema = e.value.schema
                     /\ cache_collinfo' = cache_collinfo]_vars

\* three inits on one namespace: the first context owns the pair and has
\* published a collinfo with a schema, the second was initialized while the
\* pair was pending and waits, the third was initialized after the reply and
\* holds the cached schema in NEED_MONGO_MARKINGS
C20_OwnerWaiterReader ==
  /\ Live(1) /\ Live(2) /\ Live(3)
  /\ ctx[1].state = "NEED_MONGO_COLLINFO"
  /\ ctx[1].fed = 1
  /\ ctx[2].ns = ctx[1].ns
  /\ ctx[2].state = "WAITING"
  /\ ctx[2].waiting_for_collinfo
  /\ ~ctx[2].waited
  /\ ctx[3].ns = ctx[1].ns
  /\ ctx[3].state = "NEED_MONGO_MARKINGS"
  /\ ~ctx[3].woke
  /\ ctx[3].opts.local_schema = 0
  /\ ctx[3].schema # 0
  /\ ctx[3].schema = cache_collinfo[ctx[1].ns].value.schema

\* C21: an automatic encrypt init with a local schema (and no forbidden
\* option, on a namespace with a '.') puts the context in NEED_MONGO_MARKINGS
\* with that schema and leaves the collinfo cache as it was, whatever pair the
\* namespace has: the context owns no pair and does not wait for a collinfo;
\* and an automatic encryption that is neither in NEED_MONGO_COLLINFO nor
\* waiting for a collinfo never comes to be.
C21_LocalSchemaOverridesCache ==
  [][\A c \in Ctx :
       /\ \A sch \in Schemas, n \in Ns :
            (/\ ctx[c].phase = "new"
             /\ EncryptInit(c, [DefaultOpts EXCEPT !.local_schema = sch], n))
              => /\ ctx'[c].state = "NEED_MONGO_MARKINGS"
                 /\ ctx'[c].schema = sch
                 /\ ctx'[c].ret = "true"
                 /\ ~ctx'[c].waiting_for_collinfo
                 /\ cache_collinfo' = cache_collinfo
                 /\ \A m \in Ns : cache_collinfo'[m].owner # c
       /\ (/\ Live(c)
           /\ ctx[c].kind = "encrypt"
           /\ ctx[c].state # "NEED_MONGO_COLLINFO"
           /\ ~ctx[c].waiting_for_collinfo)
            => /\ ctx'[c].state # "NEED_MONGO_COLLINFO"
               /\ ~ctx'[c].waiting_for_collinfo]_vars

\* the first context owns the pending pair of the namespace and has fed
\* nothing; the second, of the same namespace, holds a schema and asks for
\* markings
C21_LocalSchemaBesideOwner ==
  \E a \in Ctx, b \in Ctx :
    /\ a # b
    /\ Live(a)
    /\ ctx[a].state = "NEED_MONGO_COLLINFO"
    /\ ctx[a].fed = 0
    /\ cache_collinfo[ctx[a].ns].state = "pending"
    /\ cache_collinfo[ctx[a].ns].owner = a
    /\ Live(b)
    /\ ctx[b].kind = "encrypt"
    /\ ctx[b].ns = ctx[a].ns
    /\ ctx[b].state = "NEED_MONGO_MARKINGS"
    /\ ctx[b].schema # 0

\* the marking reply in announces that there is nothing to encrypt
NothingToEncrypt(in) == in.sre = "false" \/ in.hep = "false"

\* C22: a feed of a marking reply that is BSON: when schemaRequiresEncryption
\* or hasEncryptedPlaceholders is false the feed succeeds and changes neither
\* the key broker nor the marked command nor the state; otherwise, when the
\* reply has no result or its result is no document, the feed fails and the
\* context is in ERROR; otherwise the result is stored as the marked command
\* and, when every marking of it parses, the feed succeeds and the broker has
\* an entry for the identifier of each marking (its alt-name if it has one,
\* else its key id) and no entry it did not have for any other key.
C22_FeedMarkingsClassifies ==
  [][\A c \in Ctx :
       Callable(c, "NEED_MONGO_MARKINGS") =>
         \A in \in MarkingReplies :
           (in.shape = "doc" /\ MongoFeedMarkings(c, in)) =>
             LET r == ctx[c]
                 n == ctx'[c]
                 named(k) == \E i \in 1..Len(in.cmd) :
                               /\ in.cmd[i].t = "marking"
                               /\ k = IF in.cmd[i].name # 0 THEN in.cmd[i].name
                                      ELSE in.cmd[i].key
                 parses == \A i \in 1..Len(in.cmd) : in.cmd[i].t # "badmarking"
             IN  IF NothingToEncrypt(in)
                   THEN /\ n.ret = "true"
                        /\ n.state = "NEED_MONGO_MARKINGS"
                        /\ n.status = r.status
                        /\ n.kb = r.kb
                        /\ n.marked_cmd = r.marked_cmd
                        /\ cache_key' = cache_key
                 ELSE IF in.result # "doc"
                   THEN /\ n.ret = "false"
                        /\ n.state = "ERROR"
                        /\ n.status = "error"
                        /\ n.kb = r.kb
                 ELSE /\ n.marked_cmd = in.cmd
                      /\ parses =>
                           /\ n.ret = "true"
                           /\ n.state = "NEED_MONGO_MARKINGS"
                           /\ \A k \in Keys :
                                IF named(k) THEN n.kb[k] # "none"
                                ELSE n.kb[k] = r.kb[k]]_vars

\* a reply whose result holds a marking with an alt-name has been fed: the
\* context still asks for markings, holds the result and its broker has the
\* key of that name
C22_AltNameAdded ==
  \E c \in Ctx :
    /\ Live(c)
    /\ ctx[c].state = "NEED_MONGO_MARKINGS"
    /\ ctx[c].ret = "true"
    /\ Len(ctx[c].marked_cmd) = 1
    /\ ctx[c].marked_cmd[1].t = "marking"
    /\ ctx[c].marked_cmd[1].name # 0
    /\ ctx[c].marked_cmd[1].key = 0
    /\ ctx[c].kb[ctx[c].marked_cmd[1].name] # "none"

\* the marking m names exactly one of key_id and key_alt_name, and the broker
\* kb has an entry for the key it names
NamesOneBrokerKey(m, kb) ==
  /\ (m.key # 0) # (m.name # 0)
  /\ kb[MarkingKey(m)] # "none"

\* C23 as stated: every marking a finalize hands to the crypto collaborator
\* names exactly one of key_id and key_alt_name, and the key broker of the
\* context has an entry for it: the markings of the marked command of an
\* automatic encryption, and the marking the explicit finalize makes up from
\* the options, whether the context was given a key_id or a key_alt_name.
C23_MarkingNamesBrokerKey ==
  [][\A c \in Ctx :
       (/\ Live(c)
        /\ IsEncrypt(ctx[c])
        /\ \E ok \in BOOLEAN, g \in BOOLEAN : EncryptFinalize(c, ok, g))
         => IF ctx[c].kind = "encrypt"
              THEN \A i \in 1..Len(ctx[c].marked_cmd) :
                     ctx[c].marked_cmd[i].t = "marking" =>
                       NamesOneBrokerKey(ctx[c].marked_cmd[i], ctx[c].kb)
              ELSE Len(ctx[c].original_cmd) > 0 =>
                     NamesOneBrokerKey(
                       MarkingOfValue(ctx[c].opts.key_id, ctx[c].original_cmd[1],
                                      ctx[c].opts.algorithm),
                       ctx[c].kb)]_vars

\* the context c is in WAITING on keys, and every key it waits for has been
\* published as done by its owner
KeysAllDone(c) ==
  LET r == ctx[c]
  IN  /\ Live(c)
      /\ r.state = "WAITING"
      /\ ~(IsEncrypt(r) /\ r.waiting_for_collinfo)
      /\ KbHas(r.kb, "waiting")
      /\ \A k \in Keys : r.kb[k] = "waiting" => cache_key[k].state = "done"

\* C24 as stated: for a context of any kind that is in WAITING on keys all of
\* which their owners have published as done, a wait_done whose collaborators
\* succeed re-evaluates the state from the key broker: the context is no
\* longer in WAITING after it, and is in READY when all its keys are decrypted.
C24_WaitDoneLeavesWaiting ==
  [][\A c \in Ctx :
       (KeysAllDone(c) /\ (WaitDone(c, TRUE) \/ WaitDoneWoken(c))) =>
          /\ ctx'[c].state # "WAITING"
          /\ (\A k \in Keys : ctx'[c].kb[k] \in {"none", "decrypted"}) =>
                ctx'[c].state = "READY"]_vars

\* the context o has finished its NEED_MONGO_COLLINFO step without a reply and
\* is in NOTHING_TO_DO, the pair of its namespace is pending under it, and the
\* context d waits for that pair
OwnerDoneWaiterLeft(o, d) ==
  /\ Live(o)
  /\ ctx[o].kind = "encrypt"
  /\ ctx[o].state = "NOTHING_TO_DO"
  /\ cache_collinfo[ctx[o].ns].state = "pending"
  /\ cache_collinfo[ctx[o].ns].owner = o
  /\ Live(d)
  /\ ctx[d].state = "WAITING"
  /\ ctx[d].waiting_for_collinfo
  /\ ctx[d].ns = ctx[o].ns

\* C25 as stated: when the owner of a pending collinfo pair has signalled done
\* after no reply and is in NOTHING_TO_DO, and a dependent keeps calling
\* wait_done, the dependent eventually is no longer in WAITING.
C25_WaitersEventuallyLeave ==
  \A o \in 1..NumFull, d \in 1..NumFull :
    OwnerDoneWaiterLeft(o, d) ~> ~(Live(d) /\ ctx[d].state = "WAITING")

\* the encrypt context c is in WAITING with a key of its broker waiting on
\* another context
WaitingOnKeys(c) ==
  /\ Live(c)
  /\ IsEncrypt(ctx[c])
  /\ ctx[c].state = "WAITING"
  /\ KbHas(ctx[c].kb, "waiting")

\* C26: after every step, an encrypt context with waiting_for_collinfo set is
\* in WAITING or in ERROR, and one that is in WAITING on keys has it unset; a
\* step that sets waiting_for_collinfo puts the context in WAITING with the
\* pair of its namespace pending under another context; and a wait_done of a
\* context in WAITING on keys goes to the key broker: it leaves the collinfo
\* cache and the context's collinfo fields as they were.
C26_WaitingFlagOnlyInWaiting ==
  [][\A c \in Ctx :
       /\ (ctx'[c].phase = "live" /\ IsEncrypt(ctx'[c])) =>
            /\ ctx'[c].waiting_for_collinfo =>
                 ctx'[c].state \in {"WAITING", "ERROR"}
            /\ (ctx'[c].state = "WAITING" /\ KbHas(ctx'[c].kb, "waiting")) =>
                 ~ctx'[c].waiting_for_collinfo
       /\ (~ctx[c].waiting_for_collinfo /\ ctx'[c].waiting_for_collinfo) =>
            /\ ctx'[c].state = "WAITING"
            /\ cache_collinfo'[ctx'[c].ns].state = "pending"
            /\ cache_collinfo'[ctx'[c].ns].owner \notin {0, c}
       /\ (WaitingOnKeys(c) /\ \E ok \in BOOLEAN : WaitDone(c, ok)) =>
            /\ cache_collinfo' = cache_collinfo
            /\ ctx'[c].collinfo_owner = ctx[c].collinfo_owner
            /\ ctx'[c].collinfo_state = ctx[c].collinfo_state
            /\ ~ctx'[c].waiting_for_collinfo]_vars

\* C26 happens: an automatic encryption that took its schema from the pair
\* another context published is in WAITING on a key that context fetches,
\* with waiting_for_collinfo unset, and a wait_done on it has returned and
\* left it in WAITING
C26_KeyWaiterAfterCollinfo ==
  \E c \in Ctx :
    /\ WaitingOnKeys(c)
    /\ ctx[c].kind = "encrypt"
    /\ ctx[c].collinfo_state = "done"
    /\ ctx[c].fed = 0
    /\ cache_collinfo[ctx[c].ns].state = "done"
    /\ ~ctx[c].waiting_for_collinfo
    /\ ctx[c].waited

\* C27: for an encrypt context in WAITING on collinfo, the first
\* next_dependent_ctx_id after a cache lookup returns the id of a context, not
\* 0 and not the caller's own, namely the owner the lookup named; every later
\* one returns 0 and the context stays as it is, until a wait_done has re-run
\* the lookup.
C27_OwnerOncePerLookup ==
  [][\A c \in Ctx :
       (WaitsForCollinfo(c) /\ NextDependentCtxId(c)) =>
          /\ IF ctx[c].dep_ret = -1
               THEN /\ ctx'[c].dep_ret = ctx[c].collinfo_owner
                    /\ ctx'[c].dep_ret \in Ctx \ {c}
               ELSE ctx'[c].dep_ret = 0
          /\ ctx'[c].collinfo_owner = 0
          /\ ctx'[c].state = "WAITING"
          /\ ctx'[c].waiting_for_collinfo]_vars

\* C27 happens: a context waits for the collinfo pair another live context
\* still owns, has been told the owner once and its latest
\* next_dependent_ctx_id has returned 0
C27_OwnerThenZero ==
  \E c \in Ctx :
    /\ WaitsForCollinfo(c)
    /\ ctx[c].dep_ret = 0
    /\ ctx[c].collinfo_owner = 0
    /\ cache_collinfo[ctx[c].ns].state = "pending"
    /\ cache_collinfo[ctx[c].ns].owner \in Ctx \ {c}
    /\ Live(cache_collinfo[ctx[c].ns].owner)

====
